---- MODULE Spec2Model ----
(***************************************************************************)
(* A model of the file-reference extraction engine of actions-advisor     *)
(* (src/src/actions_advisor/file_parser.py), of its link formatter and of *)
(* the per-job loop that calls them (src/src/actions_advisor/main.py).    *)
(* The collaborators of the loop are modelled beside it: the duration     *)
(* formatter (formatter.py), the log preprocessor                         *)
(* (src/src/actions_ai_advisor/preprocessor.py) and the log fetcher with  *)
(* its pagination (src/src/actions_ai_advisor/log_fetcher.py).            *)
(*                                                                         *)
(* Text is modelled at character level: a Python str is a sequence of     *)
(* one-character strings, so that startswith / endswith / "in" / split /  *)
(* join / slicing are computed as the code computes them.  A log is a     *)
(* sequence of lines; a line is a record that names the textual context   *)
(* the regular expressions of FILE_PATTERNS and of                        *)
(* _extract_working_directory look at (what stands before the path, the   *)
(* path text, what stands after it).                                      *)
(***************************************************************************)
EXTENDS Integers, Sequences, FiniteSets, TLC

VARIABLES
  \* one call of parse_affected_files
  log, pc, working_dir, pattern_idx, affected_files, result,
  \* one call of format_github_link
  link_in, link_out,
  \* one run of analyze_failure
  run_in, run_pc, job_idx, job_files, llm_calls, summaries, exit_code,
  \* one call of _format_duration
  seconds, duration_str,
  \* one call of preprocess_logs
  raw_logs, pre_pc, pre_text, pre_lines, pre_collapsed, pre_filtered, preprocessed,
  \* one call of LogFetcher.fetch_failed_jobs
  api, fetch_pc, page, all_jobs, job_pos, failed_jobs, requests

vars ==
  <<log, pc, working_dir, pattern_idx, affected_files, result,
    link_in, link_out,
    run_in, run_pc, job_idx, job_files, llm_calls, summaries, exit_code,
    seconds, duration_str,
    raw_logs, pre_pc, pre_text, pre_lines, pre_collapsed, pre_filtered, preprocessed,
    api, fetch_pc, page, all_jobs, job_pos, failed_jobs, requests>>

----------------------------------------------------------------------------
(* Python values                                                           *)

\* None where a str is expected (a sequence that is no character string).
NoPath == <<"None">>

\* None where an int is expected (line numbers are never negative).
NoLine == -1

\* ord(c) for the characters that occur in paths.
Ord ==
  "-" :> 45 @@ "." :> 46 @@ "/" :> 47 @@
  "0" :> 48 @@ "1" :> 49 @@ "2" :> 50 @@ "3" :> 51 @@ "4" :> 52 @@
  "5" :> 53 @@ "6" :> 54 @@ "7" :> 55 @@ "8" :> 56 @@ "9" :> 57 @@
  ":" :> 58 @@
  "A" :> 65 @@ "B" :> 66 @@ "C" :> 67 @@ "D" :> 68 @@ "E" :> 69 @@
  "F" :> 70 @@ "G" :> 71 @@ "H" :> 72 @@ "I" :> 73 @@ "J" :> 74 @@
  "K" :> 75 @@ "L" :> 76 @@ "M" :> 77 @@ "N" :> 78 @@ "O" :> 79 @@
  "P" :> 80 @@ "Q" :> 81 @@ "R" :> 82 @@ "S" :> 83 @@ "T" :> 84 @@
  "U" :> 85 @@ "V" :> 86 @@ "W" :> 87 @@ "X" :> 88 @@ "Y" :> 89 @@
  "Z" :> 90 @@ "\\" :> 92 @@ "_" :> 95 @@
  "a" :> 97 @@ "b" :> 98 @@ "c" :> 99 @@ "d" :> 100 @@ "e" :> 101 @@
  "f" :> 102 @@ "g" :> 103 @@ "h" :> 104 @@ "i" :> 105 @@ "j" :> 106 @@
  "k" :> 107 @@ "l" :> 108 @@ "m" :> 109 @@ "n" :> 110 @@ "o" :> 111 @@
  "p" :> 112 @@ "q" :> 113 @@ "r" :> 114 @@ "s" :> 115 @@ "t" :> 116 @@
  "u" :> 117 @@ "v" :> 118 @@ "w" :> 119 @@ "x" :> 120 @@ "y" :> 121 @@
  "z" :> 122

IsUpper(c) == c \in DOMAIN Ord /\ Ord[c] >= 65 /\ Ord[c] <= 90
IsLower(c) == c \in DOMAIN Ord /\ Ord[c] >= 97 /\ Ord[c] <= 122
IsAlpha(c) == IsUpper(c) \/ IsLower(c)
IsDigit(c) == c \in DOMAIN Ord /\ Ord[c] >= 48 /\ Ord[c] <= 57

----------------------------------------------------------------------------
(* str operations                                                          *)

\* s.startswith(p)
StartsWith(s, p) == Len(p) <= Len(s) /\ SubSeq(s, 1, Len(p)) = p

\* s.endswith(p)
EndsWith(s, p) == Len(p) <= Len(s) /\ SubSeq(s, Len(s) - Len(p) + 1, Len(s)) = p

\* p in s   (p not empty)
Contains(s, p) == \E i \in 1..(Len(s) - Len(p) + 1) : SubSeq(s, i, i + Len(p) - 1) = p

\* s.find(p) + 1 where p in s: the position of the first occurrence
Find(s, p) ==
  CHOOSE i \in 1..(Len(s) - Len(p) + 1) :
    /\ SubSeq(s, i, i + Len(p) - 1) = p
    /\ \A j \in 1..(i - 1) : SubSeq(s, j, j + Len(p) - 1) # p

\* s[n:]
DropN(s, n) == SubSeq(s, n + 1, Len(s))

\* s.split(p, 1)[1] where p in s
AfterFirst(s, p) == DropN(s, Find(s, p) + Len(p) - 1)

\* s.replace(a, b) for single characters
ReplaceChar(s, a, b) == [i \in 1..Len(s) |-> IF s[i] = a THEN b ELSE s[i]]

\* s.split(c) for a single character c
RECURSIVE Split(_, _)
Split(s, c) ==
  IF \A i \in 1..Len(s) : s[i] # c
    THEN <<s>>
    ELSE LET k == CHOOSE i \in 1..Len(s) : s[i] = c /\ \A j \in 1..(i - 1) : s[j] # c
         IN  <<SubSeq(s, 1, k - 1)>> \o Split(DropN(s, k), c)

\* c.join(parts) for a single character c
RECURSIVE Join(_, _)
Join(parts, c) ==
  IF Len(parts) = 0 THEN <<>>
  ELSE IF Len(parts) = 1 THEN parts[1]
  ELSE parts[1] \o <<c>> \o Join(Tail(parts), c)

\* parts.index(x) + 1 where x in parts: the position of the first element equal to x
IndexOf(parts, x) ==
  CHOOSE i \in 1..Len(parts) : parts[i] = x /\ \A j \in 1..(i - 1) : parts[j] # x

\* int(s) for a string of decimal digits
RECURSIVE ParseInt(_)
ParseInt(s) ==
  IF Len(s) = 0 THEN 0
  ELSE 10 * ParseInt(SubSeq(s, 1, Len(s) - 1)) + (Ord[s[Len(s)]] - 48)

\* a < b for str (lexicographic on code points)
RECURSIVE StrLess(_, _)
StrLess(a, b) ==
  IF Len(b) = 0 THEN FALSE
  ELSE IF Len(a) = 0 THEN TRUE
  ELSE IF a[1] # b[1] THEN Ord[a[1]] < Ord[b[1]]
  ELSE StrLess(Tail(a), Tail(b))

----------------------------------------------------------------------------
(* _normalize_file_path                                                    *)

\* re.match(r"^[A-Za-z]:/a/", normalized)
MatchesWindowsRunner(s) ==
  Len(s) >= 5 /\ IsAlpha(s[1]) /\ SubSeq(s, 2, 5) = <<":","/","a","/">>

\* re.match(r"^[A-Za-z]:/(.+)", normalized)
MatchesDrive(s) ==
  Len(s) >= 4 /\ IsAlpha(s[1]) /\ SubSeq(s, 2, 3) = <<":","/">>

\* The tail of _normalize_file_path from the "./" cleanup on.
NormalizeRelative(s) ==
  LET n == IF StartsWith(s, <<".","/">>) THEN DropN(s, 2) ELSE s
  IN  IF StartsWith(n, <<".",".","/">>) THEN NoPath
      ELSE IF StartsWith(n, <<"/">>) THEN NoPath
      ELSE n

\* The drive-letter branch and what follows it.
NormalizeDrive(s) ==
  IF MatchesDrive(s)
    THEN LET remaining_path == DropN(s, 3)
         IN  IF Contains(remaining_path, <<"/","p","r","o","j","e","c","t","/">>)
               THEN AfterFirst(remaining_path, <<"/","p","r","o","j","e","c","t","/">>)
               ELSE remaining_path
    ELSE NormalizeRelative(s)

\* The /workspace/ and CircleCI branches and what follows them.
NormalizeWorkspace(s) ==
  IF StartsWith(s, <<"/","w","o","r","k","s","p","a","c","e","/">>) THEN DropN(s, 11)
  ELSE IF Contains(s, <<"/","h","o","m","e","/","c","i","r","c","l","e","c","i","/","p","r","o","j","e","c","t","/">>)
    THEN AfterFirst(s, <<"/","h","o","m","e","/","c","i","r","c","l","e","c","i","/","p","r","o","j","e","c","t","/">>)
  ELSE NormalizeDrive(s)

\* The Linux runner branch and what follows it.
NormalizeRunner(s) ==
  LET parts == Split(s, "/")
      work_idx == IndexOf(parts, <<"w","o","r","k">>)
  IN  IF Contains(s, <<"/","h","o","m","e","/","r","u","n","n","e","r","/","w","o","r","k","/">>) /\ Len(parts) > work_idx + 2
        THEN Join(SubSeq(parts, work_idx + 3, Len(parts)), "/")
        ELSE NormalizeWorkspace(s)

normalize_file_path(path) ==
  LET normalized == ReplaceChar(path, "\\", "/")
      parts == Split(normalized, "/")
  IN  IF MatchesWindowsRunner(normalized) /\ Len(parts) > 4
        THEN Join(SubSeq(parts, 5, Len(parts)), "/")
        ELSE NormalizeRunner(normalized)

----------------------------------------------------------------------------
(* _looks_like_incomplete_path                                             *)

generic_starts == {<<"s","r","c","/">>, <<"t","e","s","t","s","/">>, <<"t","e","s","t","/">>, <<"l","i","b","/">>, <<"p","k","g","/">>, <<"i","n","t","e","r","n","a","l","/">>, <<"c","m","d","/">>}

\* _looks_like_incomplete_path without the bare-filename case: the variant
\* under which a bare filename is never prefixed (C6 fails under it).
looks_like_incomplete_path_dirs_only(path) ==
  \E prefix \in generic_starts : StartsWith(path, prefix)

looks_like_incomplete_path(path) ==
  \/ ~Contains(path, <<"/">>)
  \/ \E prefix \in generic_starts : StartsWith(path, prefix)

----------------------------------------------------------------------------
(* _is_valid_file_path                                                     *)

skip_markers ==
  {<<"/","u","s","r","/">>, <<"/","o","p","t","/">>, <<"/","l","i","b","/">>, <<"/","n","o","d","e","_","m","o","d","u","l","e","s","/">>, <<"s","i","t","e","-","p","a","c","k","a","g","e","s","/">>, <<".","v","e","n","v","/">>, <<"v","e","n","v","/">>}

MinPathLen == 3
MaxPathLen == 200

java_library_files ==
  {<<"A","r","r","a","y","L","i","s","t",".","j","a","v","a">>, <<"H","a","s","h","M","a","p",".","j","a","v","a">>, <<"M","e","t","h","o","d",".","j","a","v","a">>, <<"C","l","a","s","s",".","j","a","v","a">>,
   <<"S","t","r","i","n","g",".","j","a","v","a">>, <<"I","n","t","e","g","e","r",".","j","a","v","a">>, <<"O","b","j","e","c","t",".","j","a","v","a">>, <<"T","h","r","e","a","d",".","j","a","v","a">>,
   <<"A","s","s","e","r","t","E","q","u","a","l","s",".","j","a","v","a">>, <<"A","s","s","e","r","t","i","o","n","s",".","j","a","v","a">>, <<"A","s","s","e","r","t","i","o","n","F","a","i","l","u","r","e","B","u","i","l","d","e","r",".","j","a","v","a">>,
   <<"T","e","s","t",".","j","a","v","a">>, <<"B","e","f","o","r","e",".","j","a","v","a">>, <<"A","f","t","e","r",".","j","a","v","a">>, <<"S","u","i","t","e",".","j","a","v","a">>}

valid_starts == {<<"s","r","c","/">>, <<"t","e","s","t","s","/">>, <<"t","e","s","t","/">>, <<"l","i","b","/">>, <<"a","p","p","/">>, <<".","/">>, <<".",".","/">>, <<"p","k","g","/">>}

extensionless_files == {<<"D","o","c","k","e","r","f","i","l","e">>, <<"M","a","k","e","f","i","l","e">>, <<"G","e","m","f","i","l","e">>, <<"R","a","k","e","f","i","l","e">>, <<"C","M","a","k","e","L","i","s","t","s",".","t","x","t">>}

source_extensions ==
  {<<"p","y">>, <<"j","s">>, <<"t","s">>, <<"t","s","x">>, <<"j","s","x">>, <<"g","o">>, <<"r","s">>, <<"r","b">>, <<"j","a","v","a">>,
   <<"c","p","p">>, <<"c">>, <<"h">>, <<"c","s">>, <<"p","h","p">>, <<"s","w","i","f","t">>, <<"k","t">>, <<"s","c","a","l","a">>,
   <<"p","y","x">>, <<"c","c">>, <<"h","p","p">>, <<"c","x","x">>}

\* filename = path: the variant that compares the whole path with the
\* library names (C10 fails under it).
BasenameWholePath(path) == path

\* path.split("/")[-1]
Basename(path) == LET parts == Split(path, "/") IN parts[Len(parts)]

\* path.rsplit(".", 1)[1] where "." in path
Extension(path) ==
  LET k == CHOOSE i \in 1..Len(path) :
             path[i] = "." /\ \A j \in (i + 1)..Len(path) : path[j] # "."
  IN  DropN(path, k)

\* The reject rules: system/library markers, length, JDK library files.
IsRejected(path) ==
  \/ \E skip \in skip_markers : Contains(path, skip)
  \/ Len(path) < MinPathLen
  \/ Len(path) > MaxPathLen
  \/ EndsWith(path, <<".","j","a","v","a">>) /\ Basename(path) \in java_library_files

\* The accept rules, tried when no reject rule applies.
IsAccepted(path) ==
  \/ \E start \in valid_starts : StartsWith(path, start)
  \/ \E valid_file \in extensionless_files :
       path = valid_file \/ StartsWith(path, valid_file \o <<".">>)
  \/ ~Contains(path, <<"/">>) /\ Contains(path, <<".">>)
  \/ Contains(path, <<".">>) /\ Extension(path) \in source_extensions

\* _is_valid_file_path with the valid_starts test moved before the reject
\* rules (C9 fails under it).
is_valid_file_path_starts_first(path) ==
  \/ \E start \in valid_starts : StartsWith(path, start)
  \/ ~IsRejected(path) /\ IsAccepted(path)

\* _is_valid_file_path with "return True" as its last statement: what no
\* reject rule stops is accepted (C17 fails under it).
is_valid_file_path_default_accept(path) == ~IsRejected(path)

is_valid_file_path(path) == ~IsRejected(path) /\ IsAccepted(path)

----------------------------------------------------------------------------
(* AffectedFile                                                            *)

AffectedFile(file_path, line_start) ==
  [file_path |-> file_path, line_start |-> line_start, line_end |-> NoLine]

\* AffectedFile.__eq__ (and __hash__): identity is (file_path, line_start, line_end).
AffectedFileEq(a, b) ==
  /\ a.file_path = b.file_path
  /\ a.line_start = b.line_start
  /\ a.line_end = b.line_end

\* list.append in the place of set.add (C4 fails under it).
SetAddAppend(s, f) == Append(s, f)

\* set.add on a set kept as the sequence of its members in insertion order.
SetAdd(s, f) ==
  IF \E i \in 1..Len(s) : AffectedFileEq(s[i], f) THEN s ELSE Append(s, f)

----------------------------------------------------------------------------
(* Log lines                                                               *)
(*                                                                         *)
(* A mention line is   <before><file><after>   where <after> carries the   *)
(* digits <num> in the place of N.  The texts before and after are the     *)
(* contexts the patterns of FILE_PATTERNS look for.                        *)

\* PATH_PATTERN's character class [\w.\/\\\-]
IsPathChar(c) == IsAlpha(c) \/ IsDigit(c) \/ c \in {"_", ".", "/", "\\", "-"}

\* The whole of s matches PATH_PATTERN: (?:[A-Za-z]:[\\/])?[\w.\/\\\-]+
IsPathText(s) ==
  \/ Len(s) >= 1 /\ \A i \in 1..Len(s) : IsPathChar(s[i])
  \/ /\ Len(s) >= 4
     /\ IsAlpha(s[1]) /\ s[2] = ":" /\ s[3] \in {"\\", "/"}
     /\ \A i \in 4..Len(s) : IsPathChar(s[i])

\* The longest suffix of s that matches PATH_PATTERN: where a pattern that
\* begins with PATH_PATTERN starts its match when the text ends with s.
HasPathTail(s) == \E k \in 1..Len(s) : IsPathText(DropN(s, k - 1))

PathTail(s) ==
  LET k == CHOOSE i \in 1..Len(s) :
             /\ IsPathText(DropN(s, i - 1))
             /\ \A j \in 1..(i - 1) : ~IsPathText(DropN(s, j - 1))
  IN  DropN(s, k - 1)

\* s is <one character or more>.<ext> with ext in exts
HasExtension(s, exts) ==
  \E ext \in exts : Len(s) > Len(ext) + 1 /\ EndsWith(s, <<".">> \o ext)

\* The prefixes of s of the form PATH_PATTERN\.(ext): a greedy PATH_PATTERN
\* takes the longest.
ExtPrefixes(s, exts) ==
  {k \in 1..Len(s) : IsPathText(SubSeq(s, 1, k)) /\ HasExtension(SubSeq(s, 1, k), exts)}

LongestExtPrefix(s, exts) ==
  LET k == CHOOSE i \in ExtPrefixes(s, exts) : \A j \in ExtPrefixes(s, exts) : j <= i
  IN  SubSeq(s, 1, k)

\* The suffixes of s of the form name or name\.[a-z]+ (dotted allowed or not)
IsBuildName(s, names, dotted) ==
  \E name \in names :
    \/ s = name
    \/ /\ dotted
       /\ StartsWith(s, name \o <<".">>)
       /\ Len(s) > Len(name) + 1
       /\ \A i \in (Len(name) + 2)..Len(s) : IsLower(s[i])

BuildSuffixes(s, names, dotted) ==
  {k \in 1..Len(s) : IsBuildName(DropN(s, k - 1), names, dotted)}

FirstBuildSuffix(s, names, dotted) ==
  LET k == CHOOSE i \in BuildSuffixes(s, names, dotted) :
             \A j \in BuildSuffixes(s, names, dotted) : i <= j
  IN  DropN(s, k - 1)

\* The "line" group of a pattern that has none (match.group raises IndexError).
NoGroup == <<"IndexError">>

Match(file, line) == [file |-> file, line |-> line]

NoQuote(s) == Len(s) >= 1 /\ \A i \in 1..Len(s) : s[i] # "\""

python_exts == {<<"p","y">>, <<"p","y","x">>}
generic_exts ==
  {<<"p","y">>, <<"j","s">>, <<"t","s">>, <<"t","s","x">>, <<"j","s","x">>, <<"g","o">>, <<"r","s">>, <<"r","b">>, <<"j","a","v","a">>, <<"c","p","p">>, <<"c">>, <<"h">>,
   <<"c","s">>, <<"p","h","p">>, <<"s","w","i","f","t">>, <<"k","t">>, <<"s","c","a","l","a">>}
node_exts == {<<"j","s">>, <<"t","s">>, <<"t","s","x">>, <<"j","s","x">>}
mention_exts == {<<"p","y">>, <<"j","s">>, <<"t","s">>, <<"g","o">>, <<"r","s">>, <<"r","b">>, <<"j","a","v","a">>}

\* FILE_PATTERNS, by position in the list.
FILE_PATTERNS ==
  <<"python", "php", "dotnet", "linter", "dockerfile", "generic", "nodejs",
    "buildfile", "webpack", "mention">>

\* pattern.finditer on one mention line: the matches, as a sequence (none or one).
PatternMatches(pattern, ln) ==
  LET f == ln.file
      colon == ln.after \in {":N", ":N:3"}
  IN
  CASE pattern = "python" ->
         IF /\ ln.before = "File \"" /\ ln.after = "\", line N"
            /\ NoQuote(f) /\ HasExtension(f, python_exts)
           THEN <<Match(f, ln.num)>> ELSE <<>>
    [] pattern = "php" ->
         IF /\ ln.before = " in " /\ ln.after = " on line N"
            /\ IsPathText(f) /\ HasExtension(f, {<<"p","h","p">>})
           THEN <<Match(f, ln.num)>> ELSE <<>>
    [] pattern = "dotnet" ->
         IF /\ ln.after = "(N,3): error"
            /\ HasPathTail(f) /\ HasExtension(PathTail(f), {<<"c","s">>})
           THEN <<Match(PathTail(f), ln.num)>> ELSE <<>>
    [] pattern = "linter" ->
         IF /\ ln.before = "mypy: \"" /\ ln.after \in {"\"", "\", line N"}
            /\ NoQuote(f)
           THEN <<Match(f, NoGroup)>> ELSE <<>>
    [] pattern = "dockerfile" ->
         IF colon /\ BuildSuffixes(f, {<<"D","o","c","k","e","r","f","i","l","e">>}, TRUE) # {}
           THEN <<Match(FirstBuildSuffix(f, {<<"D","o","c","k","e","r","f","i","l","e">>}, TRUE), ln.num)>> ELSE <<>>
    [] pattern = "generic" ->
         IF colon /\ HasPathTail(f) /\ HasExtension(PathTail(f), generic_exts)
           THEN <<Match(PathTail(f), ln.num)>> ELSE <<>>
    [] pattern = "nodejs" ->
         IF /\ ln.before = "at " /\ ln.after = ":N:3"
            /\ IsPathText(f) /\ HasExtension(f, node_exts)
           THEN <<Match(f, ln.num)>> ELSE <<>>
    [] pattern = "buildfile" ->
         IF colon /\ BuildSuffixes(f, {<<"M","a","k","e","f","i","l","e">>, <<"C","M","a","k","e","L","i","s","t","s",".","t","x","t">>, <<"G","e","m","f","i","l","e">>, <<"R","a","k","e","f","i","l","e">>}, FALSE) # {}
           THEN <<Match(FirstBuildSuffix(f, {<<"M","a","k","e","f","i","l","e">>, <<"C","M","a","k","e","L","i","s","t","s",".","t","x","t">>, <<"G","e","m","f","i","l","e">>, <<"R","a","k","e","f","i","l","e">>}, FALSE), ln.num)>>
           ELSE <<>>
    [] pattern = "webpack" ->
         IF /\ ln.before = "Can't resolve '" /\ ln.after \in {"'", "\""}
            /\ IsPathText(f)
           THEN <<Match(f, NoGroup)>> ELSE <<>>
    [] pattern = "mention" ->
         IF /\ ln.before \in {" in ", "checking "}
            /\ ExtPrefixes(f, mention_exts) # {}
           THEN <<Match(LongestExtPrefix(f, mention_exts), NoGroup)>> ELSE <<>>

\* pattern.finditer(log_content): the matches in the order of the text.
RECURSIVE FindIter(_, _)
FindIter(pattern, lines) ==
  IF Len(lines) = 0 THEN <<>>
  ELSE (IF Head(lines).kind = "mention" THEN PatternMatches(pattern, Head(lines)) ELSE <<>>)
       \o FindIter(pattern, Tail(lines))

----------------------------------------------------------------------------
(* _extract_working_directory                                              *)
(*                                                                         *)
(* A build line is either a compiled-package announcement                  *)
(*   [<timestamp> ]Compiling <pkg> v<version> (<path>)                     *)
(* or a module failure banner                                              *)
(*   [<timestamp> ]FAIL <module> 0.002s                                    *)
(* or a dependency announcement that carries no path                       *)
(*   [<timestamp> ]Compiling <pkg> v<version>                              *)
(* or an announcement whose version token carries build metadata (kind    *)
(* "compiling_build")                                                      *)
(*   [<timestamp> ]Compiling <pkg> v<version>+<build> (<path>)             *)
(* ts: the line starts with a GitHub Actions timestamp; ansi: colour       *)
(* sequences stand around the words of the line.                           *)

\* ansi_escape.sub("", log_content)
StripAnsi(lines) ==
  [i \in 1..Len(lines) |->
     IF lines[i].kind = "mention" THEN lines[i] ELSE [lines[i] EXCEPT !.ansi = FALSE]]

\* rust_pattern matches on the line: the words are unbroken by colour
\* sequences, the version token is v[\d.]+(?:-[a-zA-Z0-9.]+)? (a token with
\* "+<build>" is not) and the parenthesised text is <anything>/<parent>/<last>.
RustMatches(ln) ==
  /\ ln.kind = "compiling"
  /\ ~ln.ansi
  /\ LET parts == Split(ln.path, "/")
     IN  /\ Len(parts) >= 3
         /\ parts[Len(parts)] # <<>>
         /\ parts[Len(parts) - 1] # <<>>

RustParent(ln) == LET parts == Split(ln.path, "/") IN parts[Len(parts) - 1]
RustLast(ln) == LET parts == Split(ln.path, "/") IN parts[Len(parts)]

\* go_pattern matches on the line: FAIL stands at the start of the line and
\* the module path is <anything>/<segment>.
GoMatches(ln) ==
  /\ ln.kind = "fail"
  /\ ~ln.ansi
  /\ ~ln.ts
  /\ LET parts == Split(ln.path, "/")
     IN  Len(parts) >= 2 /\ parts[Len(parts)] # <<>>

GoSegment(ln) == LET parts == Split(ln.path, "/") IN parts[Len(parts)]

\* rust_pattern.search: the first line where rust_pattern matches (0: none)
FirstRustLine(lines) ==
  IF \E i \in 1..Len(lines) : RustMatches(lines[i])
    THEN CHOOSE i \in 1..Len(lines) :
           RustMatches(lines[i]) /\ \A j \in 1..(i - 1) : ~RustMatches(lines[j])
    ELSE 0

\* go_pattern.search: the first line where go_pattern matches (0: none)
FirstGoLine(lines) ==
  IF \E i \in 1..Len(lines) : GoMatches(lines[i])
    THEN CHOOSE i \in 1..Len(lines) :
           GoMatches(lines[i]) /\ \A j \in 1..(i - 1) : ~GoMatches(lines[j])
    ELSE 0

\* Step 3 of _extract_working_directory: the Go banner.
GoWorkingDirectory(clean_content) ==
  LET g == FirstGoLine(clean_content)
  IN  IF g # 0 THEN GoSegment(clean_content[g]) ELSE NoPath

\* _extract_working_directory with step 3 tried before step 2: the banner
\* wins over the announcement (C8 fails under it).
extract_working_directory_go_first(log_content) ==
  LET clean_content == StripAnsi(log_content)
      r == FirstRustLine(clean_content)
  IN  IF GoWorkingDirectory(clean_content) # NoPath
        THEN GoWorkingDirectory(clean_content)
        ELSE IF r # 0 /\ RustParent(clean_content[r]) # RustLast(clean_content[r])
          THEN RustLast(clean_content[r])
          ELSE NoPath

extract_working_directory(log_content) ==
  LET clean_content == StripAnsi(log_content)
      r == FirstRustLine(clean_content)
  IN  IF r # 0 /\ RustParent(clean_content[r]) # RustLast(clean_content[r])
        THEN RustLast(clean_content[r])
        ELSE GoWorkingDirectory(clean_content)

----------------------------------------------------------------------------
(* parse_affected_files                                                    *)

\* if x: for a str or None
Truthy(s) == s # NoPath /\ s # <<>>

\* line_num = 0 where the pattern has no line group (C13 fails under it).
LineNumGroupZero(m) == IF m.line = NoGroup \/ m.line = <<>> THEN 0 ELSE ParseInt(m.line)

\* int(line_str) if line_str else None; None when the pattern has no line group
LineNum(m) == IF m.line = NoGroup \/ m.line = <<>> THEN NoLine ELSE ParseInt(m.line)

\* The path of a match after normalization and the working-directory prefix.
ResolvedPath(file_path, wd) ==
  LET normalized_path == normalize_file_path(file_path)
  IN  IF Truthy(wd) /\ Truthy(normalized_path) /\ looks_like_incomplete_path(normalized_path)
        THEN wd \o <<"/">> \o normalized_path
        ELSE normalized_path

\* The body of the inner loop for one match.
AddMatch(files, m, wd) ==
  LET normalized_path == ResolvedPath(m.file, wd)
  IN  IF Truthy(normalized_path) /\ is_valid_file_path(normalized_path)
        THEN SetAdd(files, AffectedFile(normalized_path, LineNum(m)))
        ELSE files

\* The inner loop over the matches of one pattern.
RECURSIVE AddMatches(_, _, _)
AddMatches(files, matches, wd) ==
  IF Len(matches) = 0 THEN files
  ELSE AddMatches(AddMatch(files, Head(matches), wd), Tail(matches), wd)

\* The outer loop over the patterns, taken in the order given.
RECURSIVE Accumulate(_, _, _, _)
Accumulate(files, patterns, lines, wd) ==
  IF Len(patterns) = 0 THEN files
  ELSE Accumulate(AddMatches(files, FindIter(Head(patterns), lines), wd),
                  Tail(patterns), lines, wd)

\* f.line_start or 0
LineOrZero(f) == IF f.line_start = NoLine THEN 0 ELSE f.line_start

\* key = f.file_path alone (C5 fails under it).
KeyLeqPathOnly(a, b) ==
  StrLess(a.file_path, b.file_path) \/ a.file_path = b.file_path

\* key(a) <= key(b) for key = (f.file_path, f.line_start or 0)
KeyLeq(a, b) ==
  \/ StrLess(a.file_path, b.file_path)
  \/ a.file_path = b.file_path /\ LineOrZero(a) <= LineOrZero(b)

\* sorted() is stable: x goes after every element whose key is not greater.
RECURSIVE InsertSorted(_, _)
InsertSorted(s, x) ==
  IF Len(s) = 0 THEN <<x>>
  ELSE IF KeyLeq(s[1], x) THEN <<s[1]>> \o InsertSorted(Tail(s), x)
  ELSE <<x>> \o s

RECURSIVE Sorted(_)
Sorted(s) ==
  IF Len(s) = 0 THEN <<>>
  ELSE InsertSorted(Sorted(SubSeq(s, 1, Len(s) - 1)), s[Len(s)])

\* The orders in which iterating a set can yield its members: CPython
\* iterates by hash slot, the hash of a str is salted per process, and
\* members whose slots collide are placed in insertion order.
IterationOrders(s) ==
  {[i \in 1..Len(s) |-> s[p[i]]] : p \in Permutations(1..Len(s))}

\* What parse_affected_files can return for a log, the patterns taken in
\* the order given.
ParseOutcomes(lines, patterns) ==
  {Sorted(it) :
     it \in IterationOrders(Accumulate(<<>>, patterns, lines, extract_working_directory(lines)))}

----------------------------------------------------------------------------
(* Input bounds                                                            *)

\* The greatest number of build lines of a log.
MaxBuildLines == 2

\* The greatest number of mention lines of a log (beside the build lines).
MaxMentions == 2

RawPrefixes ==
  {<<>>, <<"/">>, <<".","/">>, <<".",".","/">>, <<"s","r","c","/">>, <<"l","i","b","/">>, <<"a","p","p","/">>,
   <<"/","h","o","m","e","/","r","u","n","n","e","r","/","w","o","r","k","/","r","/","r","/">>, <<"/","h","o","m","e","/","r","u","n","n","e","r","/","w","o","r","k","/","r","/">>, <<"D",":","\\","a","\\","r","\\","r","\\">>,
   <<"C",":","/">>, <<"C",":","/","U","s","e","r","s","/","p","r","o","j","e","c","t","/">>, <<"/","w","o","r","k","s","p","a","c","e","/">>, <<"/","h","o","m","e","/","c","i","r","c","l","e","c","i","/","p","r","o","j","e","c","t","/">>,
   <<"/","u","s","r","/","l","i","b","/">>}

RawMiddles ==
  {<<>>, <<"/">>, <<".","/">>, <<".",".","/">>, <<"s","r","c","/">>, <<"l","i","b","/">>, <<"v","e","n","v","/">>, <<"n","o","d","e","_","m","o","d","u","l","e","s","/">>, <<"c","m","d","/">>, <<"d","e","p","s","/">>}

RawNames ==
  {<<>>, <<"a",".","p","y">>, <<"b",".","r","s">>, <<"T","e","s","t",".","j","a","v","a">>, <<"A","p","p","T","e","s","t",".","j","a","v","a">>, <<"D","o","c","k","e","r","f","i","l","e",".","d","e","v">>, <<"M","a","k","e","f","i","l","e">>, <<"R","E","A","D","M","E">>}

RawPaths == {p \o m \o n : p \in RawPrefixes, m \in RawMiddles, n \in RawNames} \ {<<>>}

\* A path of n characters: src/aaa...a.py
LongPath(n) == <<"s","r","c","/">> \o [i \in 1..(n - 7) |-> "a"] \o <<".","p","y">>

\* Paths around the length limit, before and after a prefix of 4 characters.
LongPaths == {LongPath(n) : n \in {196, 197, 199, 200, 201}}

\* Raw paths where a CI root stands after other text, and a CI root with
\* two segments or fewer after it.
NestedRootPaths ==
  {<<".",".","/","h","o","m","e","/","r","u","n","n","e","r","/","w","o","r","k","/","r","/","r","/","a",".","p","y">>, <<".",".","/","h","o","m","e","/","c","i","r","c","l","e","c","i","/","p","r","o","j","e","c","t","/","a",".","p","y">>,
   <<".",".","\\","h","o","m","e","\\","r","u","n","n","e","r","\\","w","o","r","k","\\","r","\\","r","\\","a",".","p","y">>, <<".",".","/","x","/","a",".","p","y">>,
   <<"/","w","o","r","k","/","h","o","m","e","/","r","u","n","n","e","r","/","w","o","r","k","/","a",".","p","y">>, <<"/","w","o","r","k","/","h","o","m","e","/","r","u","n","n","e","r","/","w","o","r","k","/","r","/","r","/","a",".","p","y">>,
   <<"/","x","/","h","o","m","e","/","r","u","n","n","e","r","/","w","o","r","k","/","r","/","r","/","a",".","p","y">>, <<"/","x","/","h","o","m","e","/","r","u","n","n","e","r","/","w","o","r","k","/","r","/","r","/","s","r","c","/","a",".","p","y">>,
   <<"D",":","\\","a","\\","x","\\","y","\\","h","o","m","e","\\","r","u","n","n","e","r","\\","w","o","r","k","\\","r","\\","r","\\","a",".","p","y">>,
   <<"/","w","o","r","k","s","p","a","c","e","/","h","o","m","e","/","r","u","n","n","e","r","/","w","o","r","k","/","r","/","r","/","a",".","p","y">>,
   <<"/","h","o","m","e","/","r","u","n","n","e","r","/","w","o","r","k","/","r","/","r">>, <<"/","h","o","m","e","/","r","u","n","n","e","r","/","w","o","r","k","/","r","/","a",".","p","y">>, <<".","/",".","/","R","E","A","D","M","E">>, <<"/","o","p","t","/","x","/","a",".","p","y">>,
   <<"/","w","o","r","k","s","p","a","c","e","/",".","/","s","r","c","/","m","a","i","n",".","p","y">>, <<"C",":","/","C",":","/","a",".","p","y">>}

ProbePaths == RawPaths \cup LongPaths \cup NestedRootPaths

Mention(before, file, after, num) ==
  [kind |-> "mention", before |-> before, file |-> file, after |-> after, num |-> num]

\* Every raw path, quoted by a linter (no line number) or followed by :N.
ProbeMentions ==
  {Mention("mypy: \"", f, "\"", <<>>) : f \in ProbePaths}
  \cup {Mention("(", f, ":N", <<"9">>) : f \in ProbePaths}

\* The error-report conventions, on a few paths.
ShapeMentions ==
  {Mention("File \"", <<"s","r","c","/","a",".","p","y">>, "\", line N", n) : n \in {<<"9">>, <<"1","1">>}}
  \cup {Mention("File \"", <<"a",".","p","y","x">>, "\", line N", <<"9">>)}
  \cup {Mention(" in ", <<"/","h","o","m","e","/","r","u","n","n","e","r","/","w","o","r","k","/","r","/","r","/","i",".","p","h","p">>, " on line N", <<"9">>)}
  \cup {Mention("(", <<"D",":","\\","a","\\","r","\\","r","\\","P",".","c","s">>, "(N,3): error", <<"1","1">>)}
  \cup {Mention("mypy: \"", <<"s","r","c","/","a",".","p","y">>, "\"", <<>>)}
  \cup {Mention("(", f, ":N", <<"9">>) : f \in {<<"s","r","c","/","a",".","p","y">>, <<"a",".","p","y","x">>, <<"T","e","s","t",".","j","a","v","a">>, <<"A","p","p","T","e","s","t",".","j","a","v","a">>}}
  \cup {Mention("(", <<"s","r","c","/","a",".","p","y">>, ":N", <<"0","9">>)}
  \cup {Mention("at ", f, ":N:3", <<"9">>) : f \in {<<"s","r","c","/","a","p","p",".","j","s">>, <<"w","e","b","/","s",".","t","s">>}}
  \cup {Mention("(", f, ":N", <<"0">>) : f \in {<<"D","o","c","k","e","r","f","i","l","e">>, <<"M","a","k","e","f","i","l","e">>}}
  \cup {Mention("Can't resolve '", f, "'", <<>>) : f \in {<<".","/","s","r","c">>, <<".","/">>}}
  \cup {Mention("checking ", <<"s","r","c","/","a",".","p","y">>, " ", <<>>), Mention(" in ", <<"a",".","p","y","x">>, " ", <<>>)}
  \cup {Mention(" in ", <<"a",".","p","y">>, ":N", n) : n \in {<<"0">>, <<"9">>}}

Build(kind, path, ts, ansi) == [kind |-> kind, path |-> path, ts |-> ts, ansi |-> ansi]

BuildLines ==
  {Build("compiling", p, d[1], d[2]) :
     p \in {<<"/","h","o","m","e","/","r","u","n","n","e","r","/","w","o","r","k","/","r","/","r">>, <<"/","h","o","m","e","/","r","u","n","n","e","r","/","w","o","r","k","/","r","/","r","/","a","p","p">>},
     d \in {<<FALSE, FALSE>>, <<TRUE, TRUE>>}}
  \cup {Build("compiling", <<"/","h","o","m","e","/","r","u","n","n","e","r","/","w","o","r","k","/","r","/","r","/","s","r","c">>, FALSE, TRUE)}
  \cup {Build("fail", <<"e","x","a","m","p","l","e",".","c","o","m","/","g","o">>, d[1], d[2]) :
          d \in {<<FALSE, FALSE>>, <<TRUE, FALSE>>, <<FALSE, TRUE>>, <<TRUE, TRUE>>}}
  \cup {Build("fail", <<"v","e","n","v">>, FALSE, FALSE)}
  \cup {Build("dependency", <<>>, FALSE, FALSE)}
  \cup {Build("compiling_build", p, FALSE, FALSE) :
          p \in {<<"/","h","o","m","e","/","r","u","n","n","e","r","/","w","o","r","k","/","r","/","r">>, <<"/","h","o","m","e","/","r","u","n","n","e","r","/","w","o","r","k","/","r","/","r","/","a","p","p">>}}

SeqsUpTo(S, n) == UNION {[1..k -> S] : k \in 0..n}

\* One mention of any raw path, alone or after one build line.
ProbeLogs ==
  {b \o <<m>> :
     b \in {<<>>, <<Build("compiling", <<"/","h","o","m","e","/","r","u","n","n","e","r","/","w","o","r","k","/","r","/","r","/","a","p","p">>, FALSE, FALSE)>>,
            <<Build("fail", <<"e","x","a","m","p","l","e",".","c","o","m","/","l","i","b">>, FALSE, FALSE)>>},
     m \in ProbeMentions}

\* Build lines in every order, followed by one mention.
BuildLogs ==
  {b \o m : b \in SeqsUpTo(BuildLines, MaxBuildLines),
            m \in {<<>>, <<Mention("(", <<"s","r","c","/","m","a","i","n",".","r","s">>, ":N:3", <<"1","1">>)>>}}

\* Mentions in every order, alone or after one build line.
MentionLogs ==
  {b \o m :
     b \in {<<>>, <<Build("compiling", <<"/","h","o","m","e","/","r","u","n","n","e","r","/","w","o","r","k","/","r","/","r","/","a","p","p">>, TRUE, TRUE)>>},
     m \in SeqsUpTo(ShapeMentions, MaxMentions)}

\* A line of spaces and tabs.
BlankLine == Build("blank", <<>>, FALSE, FALSE)

\* Whitespace-only logs, and a mention after a blank line.
BlankLogs ==
  {<<BlankLine>>, <<BlankLine, BlankLine>>}
  \cup {<<BlankLine, m>> : m \in ShapeMentions}

Logs == ProbeLogs \cup BuildLogs \cup MentionLogs \cup BlankLogs

----------------------------------------------------------------------------
(* format_github_link                                                      *)

\* "" where a str is built
NoLink == <<"None">>

\* The character U+0060 of the markdown code spans (a TLA+ string cannot
\* hold it).
BQ == "U+0060"

Digits == <<"0", "1", "2", "3", "4", "5", "6", "7", "8", "9">>

\* str(n) for n >= 0, as an f-string formats an int
RECURSIVE IntToStr(_)
IntToStr(n) ==
  IF n < 10 THEN <<Digits[n + 1]>>
  ELSE IntToStr(n \div 10) \o <<Digits[(n % 10) + 1]>>

\* if x: for an int or None
IntTruthy(n) == n # NoLine /\ n # 0

\* has_directory = True for every path (C18 fails under it).
HasDirectoryAlways(path) == Len(path) >= 0

\* has_directory = "/" in file.file_path
HasDirectory(path) == Contains(path, <<"/">>)

\* Strategy 1: the direct link to the file.
DirectLink(file, repo_owner, repo_name, commit_sha) ==
  LET base_url == <<"h","t","t","p","s",":","/","/","g","i","t","h","u","b",".","c","o","m","/">> \o repo_owner \o <<"/">> \o repo_name
                    \o <<"/","b","l","o","b","/">> \o commit_sha \o <<"/">> \o file.file_path
  IN  IF IntTruthy(file.line_start)
        THEN IF IntTruthy(file.line_end) /\ file.line_end # file.line_start
               THEN <<"[",BQ>> \o file.file_path \o <<":">> \o IntToStr(file.line_start)
                      \o <<"-">> \o IntToStr(file.line_end) \o <<BQ,"]","(">> \o base_url
                      \o <<"#","L">> \o IntToStr(file.line_start)
                      \o <<"-","L">> \o IntToStr(file.line_end) \o <<")">>
               ELSE <<"[",BQ>> \o file.file_path \o <<":">> \o IntToStr(file.line_start)
                      \o <<BQ,"]","(">> \o base_url \o <<"#","L">> \o IntToStr(file.line_start) \o <<")">>
        ELSE <<"[",BQ>> \o file.file_path \o <<BQ,"]","(">> \o base_url \o <<")">>

\* Strategy 2: the search link.
SearchLink(file, repo_owner, repo_name) ==
  LET search_url == <<"h","t","t","p","s",":","/","/","g","i","t","h","u","b",".","c","o","m","/">> \o repo_owner \o <<"/">> \o repo_name
                      \o <<"/","s","e","a","r","c","h","?","q","=","p","a","t","h",":">> \o file.file_path \o <<"&","t","y","p","e","=","c","o","d","e">>
      display == IF IntTruthy(file.line_start)
                   THEN file.file_path \o <<":">> \o IntToStr(file.line_start)
                   ELSE file.file_path
  IN  <<"[",BQ>> \o display \o <<BQ,"]","(">> \o search_url \o <<")"," ","_","(","o","p","e","n"," ","a","s"," ","s","e","a","r","c","h",")","_">>

format_github_link(file, repo_owner, repo_name, commit_sha) ==
  IF HasDirectory(file.file_path)
    THEN DirectLink(file, repo_owner, repo_name, commit_sha)
    ELSE SearchLink(file, repo_owner, repo_name)

\* An AffectedFile with a line range.
AffectedFileRange(file_path, line_start, line_end) ==
  [file_path |-> file_path, line_start |-> line_start, line_end |-> line_end]

\* The references and repository coordinates format_github_link is given.
LinkPaths == {<<"s","r","c","/","a",".","p","y">>, <<"a",".","p","y">>, <<"M","a","k","e","f","i","l","e">>, <<"a","p","p","/","s","r","c","/","b",".","r","s">>, <<"b","l","o","b","/","c",".","g","o">>}
LinkLines == {NoLine, 0, 1, 9, 10}
LinkLineEnds == {NoLine, 9, 12}
LinkRepos ==
  {[repo_owner |-> <<"o">>, repo_name |-> <<"r">>, commit_sha |-> <<"a","b","c","1","2","3">>],
   [repo_owner |-> <<"r","a","t","i","b","o","r","7","8">>, repo_name |-> <<"b","l","o","b">>, commit_sha |-> <<"f","0","0">>]}

LinkInputs ==
  {[file |-> AffectedFileRange(p, ls, le), repo |-> r] :
     p \in LinkPaths, ls \in LinkLines, le \in LinkLineEnds, r \in LinkRepos}

\* No call of format_github_link under way.
NoLinkInput == [file |-> AffectedFile(NoPath, NoLine), repo |-> <<>>]

----------------------------------------------------------------------------
(* analyze_failure: the per-job loop of main.py                            *)

\* The greatest number of failed jobs of a run.
MaxJobs == 2

\* The greatest number of links of an affected-files section.
MaxFilesShown == 10

Min(a, b) == IF a <= b THEN a ELSE b

\* The affected-files section of format_analysis: one link per reference,
\* the first ten at most, or nothing.
AffectedFilesSection(files, repo) ==
  IF /\ files # <<>>
     /\ repo.repo_owner # <<>> /\ repo.repo_name # <<>> /\ repo.commit_sha # <<>>
    THEN [i \in 1..Min(Len(files), MaxFilesShown) |->
            <<"-"," ">> \o format_github_link(files[i], repo.repo_owner, repo.repo_name,
                                       repo.commit_sha)]
    ELSE <<>>

\* format_analysis, as far as it depends on the job and its references.
format_analysis(job, files, repo) ==
  [job |-> job, affected_files_section |-> AffectedFilesSection(files, repo)]

\* The steps of the loop body that can raise.
Steps == {"preprocess", "parse", "tokens", "llm", "format", "write"}

\* What raises in one job: nothing, one step, or file parsing and a later step.
FaultSets ==
  {{}} \cup {{s} : s \in Steps} \cup {{"parse", "llm"}, {"parse", "tokens"}}

\* What parse_affected_files returns for a job's log when it does not raise.
JobFiles == {<<>>, <<AffectedFile(<<"s","r","c","/","a",".","p","y">>, 9), AffectedFile(<<"b",".","r","s">>, NoLine)>>}

\* A failed job: what its log mentions and which steps raise for it.
FailedJobs == [files : JobFiles, faults : FaultSets]

RunRepos ==
  {[repo_owner |-> <<"o">>, repo_name |-> <<"r">>, commit_sha |-> <<"a","b","c","1","2","3">>],
   [repo_owner |-> <<>>, repo_name |-> <<>>, commit_sha |-> <<"a","b","c","1","2","3">>]}

\* A run: whether Config() validates, whether fetch_failed_jobs raises, the
\* failed jobs it returns, and the repository coordinates of the config.
RunInputs ==
  {[config_ok |-> c[1], fetch_ok |-> c[2], failed_jobs |-> j, repo |-> r] :
     c \in {<<TRUE, TRUE>>, <<TRUE, FALSE>>, <<FALSE, TRUE>>},
     j \in SeqsUpTo(FailedJobs, MaxJobs),
     r \in RunRepos}

\* No run under way.
NoRun == [config_ok |-> TRUE, fetch_ok |-> TRUE, failed_jobs |-> <<>>, repo |-> <<>>]

\* The exit code of a run that has not returned.
NoExit == -1

----------------------------------------------------------------------------
(* _format_duration                                                        *)

\* seconds = None
NoSeconds == -1

\* No string returned yet.
NoStr == <<"None">>

\* _format_duration with "minutes <= 60" in the place of "minutes < 60"
\* (C23 fails under it).
format_duration_minutes_inclusive(s) ==
  IF s = NoSeconds THEN <<"N","/","A">>
  ELSE IF s < 60 THEN IntToStr(s) \o <<"s">>
  ELSE IF s \div 60 <= 60
    THEN IntToStr(s \div 60) \o <<"m"," ">> \o IntToStr(s % 60) \o <<"s">>
    ELSE IntToStr((s \div 60) \div 60) \o <<"h"," ">> \o IntToStr((s \div 60) % 60) \o <<"m"," ">>
           \o IntToStr(s % 60) \o <<"s">>

format_duration(s) ==
  IF s = NoSeconds THEN <<"N","/","A">>
  ELSE IF s < 60 THEN IntToStr(s) \o <<"s">>
  ELSE LET minutes == s \div 60
           remaining_seconds == s % 60
       IN  IF minutes < 60
             THEN IntToStr(minutes) \o <<"m"," ">> \o IntToStr(remaining_seconds) \o <<"s">>
             ELSE LET hours == minutes \div 60
                      remaining_minutes == minutes % 60
                  IN  IntToStr(hours) \o <<"h"," ">> \o IntToStr(remaining_minutes) \o <<"m"," ">>
                        \o IntToStr(remaining_seconds) \o <<"s">>

\* The durations tried: None, the first minutes, the turn of the first and
\* second hour, a day and more.
DurationInputs ==
  {NoSeconds} \cup (0..125) \cup (3535..3665) \cup (7195..7205)
    \cup {86399, 86400, 90061}

----------------------------------------------------------------------------
(* preprocess_logs                                                         *)
(*                                                                         *)
(* The raw log is one string; "\n" separates its lines.                    *)

\* The escape character \x1b
ESC == "U+001B"

\* \s of the re module, among the characters of the logs
IsSpace(c) == c \in {" ", "\t", "\n", "\r"}

\* The number of characters of [0-9;]* at the head of s.
RECURSIVE AnsiParams(_)
AnsiParams(s) ==
  IF Len(s) > 0 /\ (IsDigit(s[1]) \/ s[1] = ";") THEN 1 + AnsiParams(Tail(s)) ELSE 0

\* The length of the match of \x1b\[[0-9;]*[a-zA-Z] at the head of s (0: none).
AnsiLen(s) ==
  IF Len(s) >= 3 /\ s[1] = ESC /\ s[2] = "["
    THEN LET k == AnsiParams(DropN(s, 2))
         IN  IF Len(s) >= 3 + k /\ IsAlpha(s[3 + k]) THEN 3 + k ELSE 0
    ELSE 0

\* ansi_escape.sub("", text) from position p of the text: the text up to
\* the leftmost match, then the same after the match.
RECURSIVE RemoveAnsiFrom(_, _)
RemoveAnsiFrom(s, p) ==
  LET starts == {i \in p..Len(s) : s[i] = ESC /\ AnsiLen(DropN(s, i - 1)) > 0}
  IN  IF starts = {} THEN DropN(s, p - 1)
      ELSE LET i == CHOOSE x \in starts : \A y \in starts : x <= y
           IN  SubSeq(s, p, i - 1) \o RemoveAnsiFrom(s, i + AnsiLen(DropN(s, i - 1)))

remove_ansi_codes(s) == RemoveAnsiFrom(s, 1)

\* The number of characters of \d* (of \s*) at the head of s.
RECURSIVE DigitsAt(_)
DigitsAt(s) == IF Len(s) > 0 /\ IsDigit(s[1]) THEN 1 + DigitsAt(Tail(s)) ELSE 0

RECURSIVE SpacesAt(_)
SpacesAt(s) == IF Len(s) > 0 /\ IsSpace(s[1]) THEN 1 + SpacesAt(Tail(s)) ELSE 0

\* The length of the match of \d{4}-\d{2}-\d{2}T\d{2}:\d{2}:\d{2}\.\d+Z\s*
\* at the head of s (0: none); \s* takes line ends too.
TimestampLen(s) ==
  IF /\ Len(s) >= 22
     /\ \A i \in {1, 2, 3, 4, 6, 7, 9, 10, 12, 13, 15, 16, 18, 19} : IsDigit(s[i])
     /\ s[5] = "-" /\ s[8] = "-" /\ s[11] = "T"
     /\ s[14] = ":" /\ s[17] = ":" /\ s[20] = "."
    THEN LET d == DigitsAt(DropN(s, 20))
         IN  IF d >= 1 /\ Len(s) >= 21 + d /\ s[21 + d] = "Z"
               THEN 21 + d + SpacesAt(DropN(s, 21 + d))
               ELSE 0
    ELSE 0

\* timestamp_pattern.sub("", text) from position p of the text; a match
\* starts at the start of the text or after a "\n" (re.MULTILINE).
RECURSIVE RemoveTimestampsFrom(_, _)
RemoveTimestampsFrom(s, p) ==
  LET starts == {i \in p..Len(s) : /\ i = 1 \/ s[i - 1] = "\n"
                                   /\ TimestampLen(DropN(s, i - 1)) > 0}
  IN  IF starts = {} THEN DropN(s, p - 1)
      ELSE LET i == CHOOSE x \in starts : \A y \in starts : x <= y
           IN  SubSeq(s, p, i - 1)
                 \o RemoveTimestampsFrom(s, i + TimestampLen(DropN(s, i - 1)))

remove_timestamps(s) == RemoveTimestampsFrom(s, 1)

\* metadata_patterns; re.match anchors each of them at the start of the line
metadata_patterns ==
  {<<"#","#","[","g","r","o","u","p","]">>, <<"#","#","[","e","n","d","g","r","o","u","p","]">>, <<"#","#","[","c","o","m","m","a","n","d","]">>, <<"#","#","[","d","e","b","u","g","]">>,
   <<":",":","s","e","t","-","o","u","t","p","u","t">>, <<":",":","d","e","b","u","g">>, <<":",":","n","o","t","i","c","e">>, <<":",":","w","a","r","n","i","n","g">>}

RECURSIVE remove_github_metadata(_)
remove_github_metadata(ls) ==
  IF Len(ls) = 0 THEN <<>>
  ELSE (IF \E pattern \in metadata_patterns : StartsWith(Head(ls), pattern)
          THEN <<>> ELSE <<Head(ls)>>)
       \o remove_github_metadata(Tail(ls))

\* The least number of repeats that is collapsed.
MinRepeats == 3

\* What the loop appends for prev_line after repeat_count copies of it.
FlushRun(prev_line, repeat_count) ==
  IF repeat_count >= MinRepeats
    THEN <<prev_line \o <<" ","(","r","e","p","e","a","t","e","d"," ">> \o IntToStr(repeat_count) \o <<" ","t","i","m","e","s",")">>>>
    ELSE [i \in 1..repeat_count |-> prev_line]

\* for line in lines: ... of _collapse_repeated_lines
RECURSIVE CollapseLoop(_, _, _, _)
CollapseLoop(ls, prev_line, repeat_count, collapsed) ==
  IF Len(ls) = 0
    THEN [collapsed |-> collapsed, prev_line |-> prev_line, repeat_count |-> repeat_count]
  ELSE IF Head(ls) = prev_line
    THEN CollapseLoop(Tail(ls), prev_line, repeat_count + 1, collapsed)
  ELSE CollapseLoop(Tail(ls), Head(ls), 1,
                    IF prev_line # NoStr
                      THEN collapsed \o FlushRun(prev_line, repeat_count)
                      ELSE collapsed)

\* _collapse_repeated_lines without "Handle last line": the last run is
\* not appended (C22 fails under it).
collapse_repeated_lines_loop_only(ls) ==
  IF Len(ls) = 0 THEN ls ELSE CollapseLoop(ls, NoStr, 0, <<>>).collapsed

collapse_repeated_lines(ls) ==
  IF Len(ls) = 0 THEN ls
  ELSE LET end == CollapseLoop(ls, NoStr, 0, <<>>)
       IN  IF end.prev_line # NoStr
             THEN end.collapsed \o FlushRun(end.prev_line, end.repeat_count)
             ELSE end.collapsed

\* line.strip() == ""
IsBlank(line) == \A i \in 1..Len(line) : IsSpace(line[i])

\* The greatest number of consecutive blank lines that is kept.
MaxEmptyLines == 2

\* for line in lines: ... of _remove_excessive_empty_lines
RECURSIVE EmptyLoop(_, _)
EmptyLoop(ls, empty_count) ==
  IF Len(ls) = 0 THEN <<>>
  ELSE IF IsBlank(Head(ls))
    THEN (IF empty_count + 1 <= MaxEmptyLines THEN <<Head(ls)>> ELSE <<>>)
           \o EmptyLoop(Tail(ls), empty_count + 1)
    ELSE <<Head(ls)>> \o EmptyLoop(Tail(ls), 0)

remove_excessive_empty_lines(ls) == EmptyLoop(ls, 0)

\* The number of lines kept at the end of the log.
TailLines == 150

\* lines[-150:]
LastLines(ls) ==
  IF Len(ls) <= TailLines THEN ls ELSE SubSeq(ls, Len(ls) - TailLines + 1, Len(ls))

\* The greatest number of lines of a raw log.
MaxLogLines == 4

\* A timestamp prefix with its space, and one with nothing after it.
Timestamp == <<"2","0","2","4","-","0","1","-","0","1","T","1","0",":","0","0",":","0","0",".","1","2","3","4","5","6","Z"," ">>
BareTimestamp == <<"2","0","2","4","-","0","1","-","0","1","T","1","0",":","0","0",":","0","4",".","1","Z">>

\* The raw lines tried: empty, text, blank, timestamped text, a timestamp
\* alone, a metadata line, coloured text.
RawLines ==
  {<<>>, <<"e">>, <<" ">>, Timestamp \o <<"e">>, BareTimestamp, <<"#","#","[","g","r","o","u","p","]","e">>,
   <<ESC>> \o <<"[","3","1","m","e">> \o <<ESC>> \o <<"[","0","m">>}

RawLogs == {Join(ls, "\n") : ls \in SeqsUpTo(RawLines, MaxLogLines)}

----------------------------------------------------------------------------
(* LogFetcher.fetch_failed_jobs and _fetch_all_jobs                        *)
(*                                                                         *)
(* The API is an input: the jobs of the run in the order it lists them,    *)
(* the number of jobs it puts on a page, what it reports as total_count    *)
(* and which page request it answers with an HTTP error.  A job carries    *)
(* its id, its conclusion, its steps, its start and completion time (in    *)
(* seconds, as datetime.fromisoformat reads them) and whether the request  *)
(* for its logs succeeds.                                                  *)

\* started_at / completed_at is missing or null
NoTime == -1

\* JobLog.exit_code = None
NoExitCode == -1

\* A step without the "name" key.
NoName == "(no name)"

Step(name, conclusion, has_number) ==
  [name |-> name, conclusion |-> conclusion, has_number |-> has_number]

\* The kinds of job tried: a failed job with a failed step, a cancelled job
\* without start time and with a nameless step, a successful job, a job
\* that has no conclusion yet, a failed job whose logs cannot be fetched.
JobShapes ==
  {[conclusion |-> "failure",
    steps |-> <<Step("Set up job", "success", TRUE), Step("Run tests", "failure", TRUE),
                Step("Upload", "cancelled", TRUE)>>,
    started_at |-> 100, completed_at |-> 225, logs_ok |-> TRUE],
   [conclusion |-> "cancelled",
    steps |-> <<Step(NoName, "cancelled", FALSE)>>,
    started_at |-> NoTime, completed_at |-> 225, logs_ok |-> TRUE],
   [conclusion |-> "success",
    steps |-> <<Step("Run tests", "success", TRUE)>>,
    started_at |-> 100, completed_at |-> 160, logs_ok |-> TRUE],
   [conclusion |-> "None",
    steps |-> <<>>,
    started_at |-> 100, completed_at |-> NoTime, logs_ok |-> TRUE],
   [conclusion |-> "failure",
    steps |-> <<>>,
    started_at |-> 100, completed_at |-> 100, logs_ok |-> FALSE]}

\* The greatest number of jobs of a run.
MaxRunJobs == 3

\* The job at position i of the run: the shape with the id i.
WithIds(shapes) ==
  [i \in 1..Len(shapes) |->
     [id |-> i, conclusion |-> shapes[i].conclusion, steps |-> shapes[i].steps,
      started_at |-> shapes[i].started_at, completed_at |-> shapes[i].completed_at,
      logs_ok |-> shapes[i].logs_ok]]

\* A response without the "total_count" key.
NoCount == -1

\* total_count as the API reports it for a run of n jobs: n, no such key,
\* one less, one more.
ReportedCounts(n) == {n, NoCount, n + 1} \cup (IF n > 0 THEN {n - 1} ELSE {})

Apis ==
  {[jobs |-> WithIds(shapes), page_size |-> size, total_count |-> count, bad_page |-> bad] :
     shapes \in SeqsUpTo(JobShapes, MaxRunJobs),
     size \in {1, 2},
     count \in UNION {ReportedCounts(n) : n \in 0..MaxRunJobs},
     bad \in {0, 2}}

\* The responses the API can give for a run: total_count is one of the
\* reported counts of the run's number of jobs.
RunApis == {a \in Apis : a.total_count \in ReportedCounts(Len(a.jobs))}

\* No call under way.
NoApi == [jobs |-> <<>>, page_size |-> 1, total_count |-> 0, bad_page |-> 0]

\* jobs_data.get("jobs", []) of the response for page p
ServedJobs(a, p) ==
  SubSeq(a.jobs, (p - 1) * a.page_size + 1, Min(p * a.page_size, Len(a.jobs)))

\* jobs_data.get("total_count", <default>) with a default that is never
\* reached (C25 fails under it).
TotalCountDefaultUnreached(a) ==
  IF a.total_count = NoCount THEN Len(a.jobs) + 1 ELSE a.total_count

\* jobs_data.get("total_count", 0) of a response
TotalCount(a) == IF a.total_count = NoCount THEN 0 ELSE a.total_count

\* conclusion in ("failure",) alone: cancelled jobs are passed over (C21
\* fails under it).
IsFailedConclusionFailureOnly(conclusion) == conclusion = "failure"

\* conclusion in ("failure", "cancelled")
IsFailedConclusion(conclusion) == conclusion \in {"failure", "cancelled"}

\* The first step whose conclusion is failure or cancelled (0: none).
FailedStepIndex(steps) ==
  IF \E i \in 1..Len(steps) : steps[i].conclusion \in {"failure", "cancelled"}
    THEN CHOOSE i \in 1..Len(steps) :
           /\ steps[i].conclusion \in {"failure", "cancelled"}
           /\ \A j \in 1..(i - 1) : steps[j].conclusion \notin {"failure", "cancelled"}
    ELSE 0

\* The JobLog built for a failed job.
MakeJobLog(job) ==
  LET k == FailedStepIndex(job.steps)
  IN  [job_name |-> job.id,
       step_name |-> IF k = 0 \/ job.steps[k].name = NoName
                       THEN "Unknown Step" ELSE job.steps[k].name,
       conclusion |-> job.conclusion,
       raw_logs |-> job.id,
       exit_code |-> IF k # 0 /\ job.steps[k].has_number THEN 1 ELSE NoExitCode,
       duration_seconds |->
         IF job.started_at # NoTime /\ job.completed_at # NoTime
           THEN job.completed_at - job.started_at ELSE NoSeconds]

----------------------------------------------------------------------------
(* Variables at rest: the parts of the state a specification leaves alone  *)

parse_vars == <<log, pc, working_dir, pattern_idx, affected_files, result>>
link_vars == <<link_in, link_out>>
run_vars == <<run_in, run_pc, job_idx, job_files, llm_calls, summaries, exit_code>>

dur_vars == <<seconds, duration_str>>
pre_vars ==
  <<raw_logs, pre_pc, pre_text, pre_lines, pre_collapsed, pre_filtered, preprocessed>>
fetch_vars == <<api, fetch_pc, page, all_jobs, job_pos, failed_jobs, requests>>

not_parse_vars == <<link_vars, run_vars, dur_vars, pre_vars, fetch_vars>>
not_link_vars == <<parse_vars, run_vars, dur_vars, pre_vars, fetch_vars>>
not_run_vars == <<parse_vars, link_vars, dur_vars, pre_vars, fetch_vars>>
not_dur_vars == <<parse_vars, link_vars, run_vars, pre_vars, fetch_vars>>
not_pre_vars == <<parse_vars, link_vars, run_vars, dur_vars, fetch_vars>>
not_fetch_vars == <<parse_vars, link_vars, run_vars, dur_vars, pre_vars>>

ParseIdle ==
  /\ log = <<>>
  /\ pc = "idle"
  /\ working_dir = NoPath
  /\ pattern_idx = 1
  /\ affected_files = <<>>
  /\ result = <<>>

LinkIdle ==
  /\ link_in = NoLinkInput
  /\ link_out = NoLink

RunIdle ==
  /\ run_in = NoRun
  /\ run_pc = "idle"
  /\ job_idx = 0
  /\ job_files = <<>>
  /\ llm_calls = <<>>
  /\ summaries = <<>>
  /\ exit_code = NoExit

DurIdle ==
  /\ seconds = NoSeconds
  /\ duration_str = NoStr

PreIdle ==
  /\ raw_logs = <<>>
  /\ pre_pc = "idle"
  /\ pre_text = <<>>
  /\ pre_lines = <<>>
  /\ pre_collapsed = <<>>
  /\ pre_filtered = <<>>
  /\ preprocessed = <<>>

FetchIdle ==
  /\ api = NoApi
  /\ fetch_pc = "idle"
  /\ page = 1
  /\ all_jobs = <<>>
  /\ job_pos = 1
  /\ failed_jobs = <<>>
  /\ requests = <<>>

----------------------------------------------------------------------------
(* The state machine: one call of parse_affected_files                     *)

Init ==
  /\ log \in Logs
  /\ pc = "start"
  /\ working_dir = NoPath
  /\ pattern_idx = 1
  /\ affected_files = <<>>
  /\ result = <<>>
  /\ LinkIdle
  /\ RunIdle
  /\ DurIdle
  /\ PreIdle
  /\ FetchIdle

\* working_dir = _extract_working_directory(log_content)
ExtractWorkingDirectory ==
  /\ pc = "start"
  /\ working_dir' = extract_working_directory(log)
  /\ pc' = "scan"
  /\ UNCHANGED <<log, pattern_idx, affected_files, result, not_parse_vars>>

\* One round of "for pattern in FILE_PATTERNS": every match of the pattern
\* is normalized, prefixed, validated and added.
ScanPattern ==
  /\ pc = "scan"
  /\ pattern_idx <= Len(FILE_PATTERNS)
  /\ affected_files' =
       AddMatches(affected_files, FindIter(FILE_PATTERNS[pattern_idx], log), working_dir)
  /\ pattern_idx' = pattern_idx + 1
  /\ UNCHANGED <<log, pc, working_dir, result, not_parse_vars>>

\* return sorted(affected_files, key=...)
SortResult ==
  /\ pc = "scan"
  /\ pattern_idx > Len(FILE_PATTERNS)
  /\ \E it \in IterationOrders(affected_files) : result' = Sorted(it)
  /\ pc' = "done"
  /\ UNCHANGED <<log, working_dir, pattern_idx, affected_files, not_parse_vars>>

Next == ExtractWorkingDirectory \/ ScanPattern \/ SortResult

Spec == Init /\ [][Next]_vars


----------------------------------------------------------------------------
(* The state machine: one call of format_github_link                       *)

LinkInit ==
  /\ ParseIdle
  /\ RunIdle
  /\ DurIdle
  /\ PreIdle
  /\ FetchIdle
  /\ link_in \in LinkInputs
  /\ link_out = NoLink

\* return the markdown link
FormatGithubLink ==
  /\ link_in # NoLinkInput
  /\ link_out = NoLink
  /\ link_out' = format_github_link(link_in.file, link_in.repo.repo_owner,
                                    link_in.repo.repo_name, link_in.repo.commit_sha)
  /\ UNCHANGED <<link_in, not_link_vars>>

LinkNext == FormatGithubLink

LinkSpec == LinkInit /\ [][LinkNext]_vars

----------------------------------------------------------------------------
(* The state machine: one run of analyze_failure                           *)

RunInit ==
  /\ ParseIdle
  /\ LinkIdle
  /\ DurIdle
  /\ PreIdle
  /\ FetchIdle
  /\ run_in \in RunInputs
  /\ run_pc = "config"
  /\ job_idx = 0
  /\ job_files = <<>>
  /\ llm_calls = <<>>
  /\ summaries = <<>>
  /\ exit_code = NoExit

\* The job the loop is at.
job_log == run_in.failed_jobs[job_idx]

\* The references of the job without "affected_files = []" before the
\* try: a job whose parsing raises keeps the list of the job before it
\* (C20 fails under it).
ParsedFilesNoReset(job, previous) ==
  IF "parse" \in job.faults THEN previous ELSE job.files

\* affected_files after the try/except around parse_affected_files
ParsedFiles(job, previous) ==
  IF "parse" \in job.faults THEN <<>> ELSE job.files

\* return <code>
Return(code) ==
  /\ exit_code' = code
  /\ run_pc' = "exit"

\* continue, or the end of the loop body: on to the next job
Continue ==
  /\ job_idx' = job_idx + 1
  /\ run_pc' = "loop"

\* config = Config(); a ValidationError returns 1
LoadConfig ==
  /\ run_pc = "config"
  /\ IF run_in.config_ok
       THEN run_pc' = "fetch" /\ UNCHANGED exit_code
       ELSE Return(1)
  /\ UNCHANGED <<run_in, job_idx, job_files, llm_calls, summaries, not_run_vars>>

\* failed_jobs = await fetcher.fetch_failed_jobs(); no failed job returns 0,
\* an exception goes to the outer handler and returns 1
FetchFailedJobs ==
  /\ run_pc = "fetch"
  /\ IF ~run_in.fetch_ok
       THEN Return(1) /\ UNCHANGED job_idx
       ELSE IF run_in.failed_jobs = <<>>
         THEN Return(0) /\ UNCHANGED job_idx
         ELSE job_idx' = 1 /\ run_pc' = "loop" /\ UNCHANGED exit_code
  /\ UNCHANGED <<run_in, job_files, llm_calls, summaries, not_run_vars>>

\* for i, job_log in enumerate(failed_jobs, 1); after the last job return 0
LoopHead ==
  /\ run_pc = "loop"
  /\ IF job_idx <= Len(run_in.failed_jobs)
       THEN run_pc' = "preprocess" /\ UNCHANGED exit_code
       ELSE Return(0)
  /\ UNCHANGED <<run_in, job_idx, job_files, llm_calls, summaries, not_run_vars>>

\* preprocess_logs inside a try of its own whose handler goes on to the
\* next job (C27 fails under it).
PreprocessLogsIsolated ==
  /\ run_pc = "preprocess"
  /\ IF "preprocess" \in job_log.faults
       THEN Continue /\ UNCHANGED exit_code
       ELSE run_pc' = "parse" /\ UNCHANGED <<exit_code, job_idx>>
  /\ UNCHANGED <<run_in, job_files, llm_calls, summaries, not_run_vars>>

\* preprocessed = preprocess_logs(job_log.raw_logs), outside every inner try
PreprocessLogs ==
  /\ run_pc = "preprocess"
  /\ IF "preprocess" \in job_log.faults
       THEN Return(1)
       ELSE run_pc' = "parse" /\ UNCHANGED exit_code
  /\ UNCHANGED <<run_in, job_idx, job_files, llm_calls, summaries, not_run_vars>>

\* affected_files = []; try: affected_files = parse_affected_files(...)
\* except Exception: pass
ParseAffectedFiles ==
  /\ run_pc = "parse"
  /\ job_files' = ParsedFiles(job_log, job_files)
  /\ run_pc' = "tokens"
  /\ UNCHANGED <<run_in, job_idx, llm_calls, summaries, exit_code, not_run_vars>>

\* token_count = token_counter.count_tokens(preprocessed), outside every inner try
CountTokens ==
  /\ run_pc = "tokens"
  /\ IF "tokens" \in job_log.faults
       THEN Return(1)
       ELSE run_pc' = "analyze" /\ UNCHANGED exit_code
  /\ UNCHANGED <<run_in, job_idx, job_files, llm_calls, summaries, not_run_vars>>

\* The LLM call without the try around it: an exception goes to the outer
\* handler and returns 1 (C24 fails under it).
AnalyzeUncaught ==
  /\ run_pc = "analyze"
  /\ llm_calls' = Append(llm_calls, job_idx)
  /\ IF "llm" \in job_log.faults
       THEN Return(1)
       ELSE run_pc' = "format" /\ UNCHANGED exit_code
  /\ UNCHANGED <<run_in, job_idx, job_files, summaries, not_run_vars>>

\* result = await llm_client.analyze(job_log, preprocessed); on an exception continue
Analyze ==
  /\ run_pc = "analyze"
  /\ llm_calls' = Append(llm_calls, job_idx)
  /\ IF "llm" \in job_log.faults
       THEN Continue
       ELSE run_pc' = "format" /\ UNCHANGED job_idx
  /\ UNCHANGED <<run_in, job_files, summaries, exit_code, not_run_vars>>

\* markdown = format_analysis(...); write_job_summary(markdown); on an
\* exception continue
FormatAndWrite ==
  /\ run_pc = "format"
  /\ summaries' =
       IF job_log.faults \cap {"format", "write"} # {}
         THEN summaries
         ELSE Append(summaries, format_analysis(job_idx, job_files, run_in.repo))
  /\ Continue
  /\ UNCHANGED <<run_in, job_files, llm_calls, exit_code, not_run_vars>>

RunNext ==
  \/ LoadConfig
  \/ FetchFailedJobs
  \/ LoopHead
  \/ PreprocessLogs
  \/ ParseAffectedFiles
  \/ CountTokens
  \/ Analyze
  \/ FormatAndWrite

RunSpec == RunInit /\ [][RunNext]_vars

----------------------------------------------------------------------------
(* The state machine: one call of _format_duration                         *)

DurInit ==
  /\ ParseIdle
  /\ LinkIdle
  /\ RunIdle
  /\ PreIdle
  /\ FetchIdle
  /\ seconds \in DurationInputs
  /\ duration_str = NoStr

\* return the formatted duration
FormatDuration ==
  /\ duration_str = NoStr
  /\ duration_str' = format_duration(seconds)
  /\ UNCHANGED <<seconds, not_dur_vars>>

DurNext == FormatDuration

DurSpec == DurInit /\ [][DurNext]_vars

----------------------------------------------------------------------------
(* The state machine: one call of preprocess_logs                          *)

PreInit ==
  /\ ParseIdle
  /\ LinkIdle
  /\ RunIdle
  /\ DurIdle
  /\ FetchIdle
  /\ raw_logs \in RawLogs
  /\ pre_pc = "ansi"
  /\ pre_text = <<>>
  /\ pre_lines = <<>>
  /\ pre_collapsed = <<>>
  /\ pre_filtered = <<>>
  /\ preprocessed = <<>>

\* Step 1: text = _remove_ansi_codes(raw_logs)
RemoveAnsiCodes ==
  /\ pre_pc = "ansi"
  /\ pre_text' = remove_ansi_codes(raw_logs)
  /\ pre_pc' = "timestamps"
  /\ UNCHANGED <<raw_logs, pre_lines, pre_collapsed, pre_filtered, preprocessed, not_pre_vars>>

\* Step 2: text = _remove_timestamps(text)
RemoveTimestamps ==
  /\ pre_pc = "timestamps"
  /\ pre_text' = remove_timestamps(pre_text)
  /\ pre_pc' = "metadata"
  /\ UNCHANGED <<raw_logs, pre_lines, pre_collapsed, pre_filtered, preprocessed, not_pre_vars>>

\* Steps 3 and 4: lines = _remove_github_metadata(text.split("\n"))
RemoveGithubMetadata ==
  /\ pre_pc = "metadata"
  /\ pre_lines' = remove_github_metadata(Split(pre_text, "\n"))
  /\ pre_pc' = "collapse"
  /\ UNCHANGED <<raw_logs, pre_text, pre_collapsed, pre_filtered, preprocessed, not_pre_vars>>

\* Step 5: lines = _collapse_repeated_lines(lines)
CollapseRepeatedLines ==
  /\ pre_pc = "collapse"
  /\ pre_collapsed' = collapse_repeated_lines(pre_lines)
  /\ pre_pc' = "empty"
  /\ UNCHANGED <<raw_logs, pre_text, pre_lines, pre_filtered, preprocessed, not_pre_vars>>

\* Step 6: lines = _remove_excessive_empty_lines(lines)
RemoveExcessiveEmptyLines ==
  /\ pre_pc = "empty"
  /\ pre_filtered' = remove_excessive_empty_lines(pre_collapsed)
  /\ pre_pc' = "join"
  /\ UNCHANGED <<raw_logs, pre_text, pre_lines, pre_collapsed, preprocessed, not_pre_vars>>

\* Step 7 and the return: "\n".join(lines[-150:])
JoinLastLines ==
  /\ pre_pc = "join"
  /\ preprocessed' = Join(LastLines(pre_filtered), "\n")
  /\ pre_pc' = "done"
  /\ UNCHANGED <<raw_logs, pre_text, pre_lines, pre_collapsed, pre_filtered, not_pre_vars>>

PreNext ==
  \/ RemoveAnsiCodes
  \/ RemoveTimestamps
  \/ RemoveGithubMetadata
  \/ CollapseRepeatedLines
  \/ RemoveExcessiveEmptyLines
  \/ JoinLastLines

PreSpec == PreInit /\ [][PreNext]_vars

----------------------------------------------------------------------------
(* The state machine: one call of LogFetcher.fetch_failed_jobs             *)

FetchInit ==
  /\ ParseIdle
  /\ LinkIdle
  /\ RunIdle
  /\ DurIdle
  /\ PreIdle
  /\ api \in RunApis
  /\ fetch_pc = "pages"
  /\ page = 1
  /\ all_jobs = <<>>
  /\ job_pos = 1
  /\ failed_jobs = <<>>
  /\ requests = <<>>

\* One round of "while True" of _fetch_all_jobs: the request for the page,
\* raise_for_status, the two break tests, page += 1.
FetchJobsPage ==
  /\ fetch_pc = "pages"
  /\ requests' = Append(requests, [kind |-> "jobs", id |-> page])
  /\ IF api.bad_page = page
       THEN fetch_pc' = "raised" /\ UNCHANGED <<all_jobs, page>>
       ELSE LET jobs == ServedJobs(api, page)
            IN  IF jobs = <<>>
                  THEN fetch_pc' = "jobs" /\ UNCHANGED <<all_jobs, page>>
                  ELSE /\ all_jobs' = all_jobs \o jobs
                       /\ IF Len(all_jobs') >= TotalCount(api)
                            THEN fetch_pc' = "jobs" /\ UNCHANGED page
                            ELSE page' = page + 1 /\ UNCHANGED fetch_pc
  /\ UNCHANGED <<api, job_pos, failed_jobs, not_fetch_vars>>

\* One round of "for job in all_jobs": a job that failed or was cancelled
\* has its logs requested and its JobLog appended.
VisitJob ==
  /\ fetch_pc = "jobs"
  /\ job_pos <= Len(all_jobs)
  /\ LET job == all_jobs[job_pos]
     IN  IF IsFailedConclusion(job.conclusion)
           THEN /\ requests' = Append(requests, [kind |-> "logs", id |-> job.id])
                /\ IF job.logs_ok
                     THEN /\ failed_jobs' = Append(failed_jobs, MakeJobLog(job))
                          /\ job_pos' = job_pos + 1
                          /\ UNCHANGED fetch_pc
                     ELSE /\ fetch_pc' = "raised"
                          /\ UNCHANGED <<failed_jobs, job_pos>>
           ELSE /\ job_pos' = job_pos + 1
                /\ UNCHANGED <<requests, failed_jobs, fetch_pc>>
  /\ UNCHANGED <<api, page, all_jobs, not_fetch_vars>>

\* return failed_jobs
ReturnFailedJobs ==
  /\ fetch_pc = "jobs"
  /\ job_pos > Len(all_jobs)
  /\ fetch_pc' = "returned"
  /\ UNCHANGED <<api, page, all_jobs, job_pos, failed_jobs, requests, not_fetch_vars>>

FetchNext == FetchJobsPage \/ VisitJob \/ ReturnFailedJobs

FetchSpec == FetchInit /\ [][FetchNext]_vars

\* The call goes on as long as a step is left: every request is answered
\* (the client has a timeout of 30 seconds).
FetchFairSpec == FetchSpec /\ WF_vars(FetchNext)

----------------------------------------------------------------------------
(* Properties                                                              *)

Range(s) == {s[i] : i \in 1..Len(s)}

\* Every match of every pattern in the log.
AllMatches == UNION {Range(FindIter(FILE_PATTERNS[k], log)) : k \in 1..Len(FILE_PATTERNS)}

\* The compiled-package announcements of the log that carry a parenthesised
\* path, by line number.
Announcements == {i \in 1..Len(log) : log[i].kind \in {"compiling", "compiling_build"}}

IsFirstAnnouncement(i) == i \in Announcements /\ \A j \in Announcements : i <= j

Segments(path) == Split(path, "/")
ParentSegment(path) == Segments(path)[Len(Segments(path)) - 1]
LastSegment(path) == Segments(path)[Len(Segments(path))]

\* C1: no returned reference has a path that starts with "/" or that has a
\* ".." segment followed by "/".
C1_PathSafety ==
  \A i \in 1..Len(result) :
    LET parts == Segments(result[i].file_path)
    IN  /\ ~StartsWith(result[i].file_path, <<"/">>)
        /\ \A k \in 1..(Len(parts) - 1) : parts[k] # <<".",".">>

\* C2: when the first compiled-package announcement of the log has
\* parent = last, no working directory is inferred, whatever else the log
\* contains.
C2_RootProjectNoDirectory ==
  (/\ pc # "start"
   /\ \E i \in Announcements :
        /\ IsFirstAnnouncement(i)
        /\ ParentSegment(log[i].path) = LastSegment(log[i].path))
  => working_dir = NoPath

\* The pattern battery in the order of the code and in the reverse order.
RECURSIVE Reverse(_)
Reverse(s) == IF Len(s) = 0 THEN <<>> ELSE Append(Reverse(Tail(s)), Head(s))

PatternOrders == {FILE_PATTERNS, Reverse(FILE_PATTERNS)}

\* C3: whatever the order in which the patterns are evaluated, the call
\* returns the same sequence.
C3_RuleOrderIndependent ==
  pc = "done" =>
    \A patterns \in PatternOrders : \A r \in ParseOutcomes(log, patterns) : r = result

\* C4: the returned sequence holds no two references with the same
\* (path, line_start, line_end).
C4_NoDuplicateTriples ==
  \A i, j \in 1..Len(result) :
    i # j =>
      <<result[i].file_path, result[i].line_start, result[i].line_end>>
        # <<result[j].file_path, result[j].line_start, result[j].line_end>>

\* The accepted matches of the log, one entry per match.
AcceptedMatches ==
  {m \in AllMatches :
     AddMatch(<<>>, m, working_dir) # <<>>}

\* C4 witness: the call has returned, two matches of the log that differ
\* (in raw path or line text) name the same file and line, and the
\* reference is returned once.
C4_Witness ==
  /\ pc = "done"
  /\ Len(result) >= 1
  /\ \E m1, m2 \in AcceptedMatches :
       m1 # m2 /\ AddMatch(<<>>, m1, working_dir) = AddMatch(<<>>, m2, working_dir)

\* C5: the returned sequence is ascending in (path, line_start or 0).
C5_SortedByPathAndLine ==
  \A i \in 1..(Len(result) - 1) :
    LET a == result[i]
        b == result[i + 1]
        la == IF a.line_start = NoLine THEN 0 ELSE a.line_start
        lb == IF b.line_start = NoLine THEN 0 ELSE b.line_start
    IN  \/ StrLess(a.file_path, b.file_path)
        \/ a.file_path = b.file_path /\ la <= lb

\* C5 witness: three references or more are returned, two of one path on
\* different lines and two of different paths.
C5_Witness ==
  /\ pc = "done"
  /\ Len(result) >= 3
  /\ \E i, j \in 1..Len(result) :
       result[i].file_path = result[j].file_path /\ result[i].line_start # result[j].line_start
  /\ \E i, j \in 1..Len(result) : result[i].file_path # result[j].file_path

\* The shape C6 names: no "/" at all, or one of the generic first folders.
ClaimedIncomplete(path) ==
  \/ \A i \in 1..Len(path) : path[i] # "/"
  \/ \E g \in {<<"s","r","c","/">>, <<"t","e","s","t","s","/">>, <<"t","e","s","t","/">>, <<"l","i","b","/">>, <<"p","k","g","/">>, <<"i","n","t","e","r","n","a","l","/">>, <<"c","m","d","/">>} :
       StartsWith(path, g)

\* The path C6 expects for a match whose normalized path is p.
ClaimedPath(p) ==
  IF ClaimedIncomplete(p) THEN working_dir \o <<"/">> \o p ELSE p

\* C6: with a working directory W inferred, the references returned are
\* exactly the accepted ones among: W/<normalized path> for a match whose
\* normalized path has no "/" or starts with a generic folder, and the
\* normalized path itself for a match of another shape.
C6_PrefixWhenIncomplete ==
  (pc = "done" /\ Truthy(working_dir)) =>
    Range(result) =
      {AffectedFile(ClaimedPath(normalize_file_path(m.file)), LineNum(m)) :
         m \in {x \in AllMatches :
                  /\ Truthy(normalize_file_path(x.file))
                  /\ is_valid_file_path(ClaimedPath(normalize_file_path(x.file)))}}

\* C6 witness: a working directory is inferred and the call returns a
\* prefixed src/ path and an unprefixed path of another shape.
C6_Witness ==
  /\ pc = "done"
  /\ Truthy(working_dir)
  /\ \E m \in AllMatches :
       /\ StartsWith(normalize_file_path(m.file), <<"s","r","c","/">>)
       /\ AffectedFile(working_dir \o <<"/">> \o normalize_file_path(m.file), LineNum(m))
            \in Range(result)
  /\ \E m \in AllMatches :
       /\ Truthy(normalize_file_path(m.file))
       /\ ~ClaimedIncomplete(normalize_file_path(m.file))
       /\ AffectedFile(normalize_file_path(m.file), LineNum(m)) \in Range(result)

\* The log with every build line undecorated.
Plain(lines) ==
  [i \in 1..Len(lines) |->
     IF lines[i].kind = "mention" THEN lines[i]
     ELSE [lines[i] EXCEPT !.ts = FALSE, !.ansi = FALSE]]

\* Every build line carries a timestamp prefix and colour sequences.
Decorated(lines) ==
  /\ \E i \in 1..Len(lines) : lines[i].kind # "mention"
  /\ \A i \in 1..Len(lines) : lines[i].kind # "mention" => lines[i].ts /\ lines[i].ansi

\* C7: the directory inferred from a decorated log is the directory
\* inferred from the same log without decoration.
C7_DecorationRobust ==
  (pc # "start" /\ Decorated(log)) =>
    working_dir = extract_working_directory(Plain(log))

\* C8: when the first compiled-package announcement has parent # last, the
\* inferred directory is its last segment.
C8_AnnouncementWins ==
  \A i \in Announcements :
    (/\ pc # "start"
     /\ IsFirstAnnouncement(i)
     /\ ParentSegment(log[i].path) # LastSegment(log[i].path))
    => working_dir = LastSegment(log[i].path)

\* C8 witness: a failure banner that names another module stands before
\* the first announcement, and the announcement's last segment is inferred.
C8_Witness ==
  /\ pc # "start"
  /\ \E i \in Announcements :
       /\ IsFirstAnnouncement(i)
       /\ ParentSegment(log[i].path) # LastSegment(log[i].path)
       /\ working_dir = LastSegment(log[i].path)
       /\ \E j \in 1..(i - 1) :
            /\ log[j].kind = "fail" /\ ~log[j].ts
            /\ Len(Segments(log[j].path)) >= 2
            /\ LastSegment(log[j].path) # working_dir

\* C9: no returned path contains a system or dependency marker.
C9_NoSystemMarkers ==
  \A i \in 1..Len(result) :
    \A marker \in {<<"/","u","s","r","/">>, <<"/","o","p","t","/">>, <<"/","l","i","b","/">>, <<"/","n","o","d","e","_","m","o","d","u","l","e","s","/">>,
                   <<"s","i","t","e","-","p","a","c","k","a","g","e","s","/">>, <<".","v","e","n","v","/">>, <<"v","e","n","v","/">>} :
      ~Contains(result[i].file_path, marker)

\* C9 witness: the log mentions a path that starts with src/ and contains
\* a marker, and nothing is returned for it.
C9_Witness ==
  /\ pc = "done"
  /\ result = <<>>
  /\ \E m \in AllMatches :
       /\ ResolvedPath(m.file, working_dir) # NoPath
       /\ StartsWith(ResolvedPath(m.file, working_dir), <<"s","r","c","/">>)
       /\ Contains(ResolvedPath(m.file, working_dir), <<"v","e","n","v","/">>)
       /\ EndsWith(ResolvedPath(m.file, working_dir), <<".","p","y">>)

JvmLibraryNames ==
  {<<"A","r","r","a","y","L","i","s","t",".","j","a","v","a">>, <<"H","a","s","h","M","a","p",".","j","a","v","a">>, <<"M","e","t","h","o","d",".","j","a","v","a">>, <<"C","l","a","s","s",".","j","a","v","a">>,
   <<"S","t","r","i","n","g",".","j","a","v","a">>, <<"I","n","t","e","g","e","r",".","j","a","v","a">>, <<"O","b","j","e","c","t",".","j","a","v","a">>, <<"T","h","r","e","a","d",".","j","a","v","a">>,
   <<"A","s","s","e","r","t","E","q","u","a","l","s",".","j","a","v","a">>, <<"A","s","s","e","r","t","i","o","n","s",".","j","a","v","a">>, <<"A","s","s","e","r","t","i","o","n","F","a","i","l","u","r","e","B","u","i","l","d","e","r",".","j","a","v","a">>,
   <<"T","e","s","t",".","j","a","v","a">>, <<"B","e","f","o","r","e",".","j","a","v","a">>, <<"A","f","t","e","r",".","j","a","v","a">>, <<"S","u","i","t","e",".","j","a","v","a">>}

LastOf(path) == LET parts == Segments(path) IN parts[Len(parts)]

\* A path no reject rule but the library-name rule could stop.
NoMarkerAndFits(path) ==
  /\ \A marker \in {<<"/","u","s","r","/">>, <<"/","o","p","t","/">>, <<"/","l","i","b","/">>, <<"/","n","o","d","e","_","m","o","d","u","l","e","s","/">>,
                    <<"s","i","t","e","-","p","a","c","k","a","g","e","s","/">>, <<".","v","e","n","v","/">>, <<"v","e","n","v","/">>} : ~Contains(path, marker)
  /\ Len(path) >= 3 /\ Len(path) <= 200

\* C10: no returned .java path has a last segment in the JVM library list;
\* a match whose resolved path has AppTest.java as its last segment, and
\* which no other reject rule stops, is returned.
C10_JvmLibraryFilter ==
  /\ \A i \in 1..Len(result) :
       ~(/\ EndsWith(result[i].file_path, <<".","j","a","v","a">>)
         /\ LastOf(result[i].file_path) \in JvmLibraryNames)
  /\ pc = "done" =>
       \A m \in AllMatches :
         LET p == ResolvedPath(m.file, working_dir)
         IN  (/\ Truthy(p) /\ LastOf(p) = <<"A","p","p","T","e","s","t",".","j","a","v","a">> /\ NoMarkerAndFits(p))
             => AffectedFile(p, LineNum(m)) \in Range(result)

\* C10 witness: the log mentions Test.java under a directory and
\* AppTest.java; only AppTest.java is returned.
C10_Witness ==
  /\ pc = "done"
  /\ \E m \in AllMatches :
       /\ Truthy(ResolvedPath(m.file, working_dir))
       /\ LastOf(ResolvedPath(m.file, working_dir)) = <<"T","e","s","t",".","j","a","v","a">>
       /\ Contains(ResolvedPath(m.file, working_dir), <<"/">>)
  /\ \E i \in 1..Len(result) : LastOf(result[i].file_path) = <<"A","p","p","T","e","s","t",".","j","a","v","a">>
  /\ \A i \in 1..Len(result) : LastOf(result[i].file_path) # <<"T","e","s","t",".","j","a","v","a">>

\* C11: every returned path is non-empty and has fewer than 200
\* characters, the working-directory prefix counted.
C11_ShorterThan200 ==
  \A i \in 1..Len(result) :
    Len(result[i].file_path) >= 1 /\ Len(result[i].file_path) < 200

\* C12: every returned reference has line_start absent or at least 1.
C12_LinePositive ==
  \A i \in 1..Len(result) :
    result[i].line_start = NoLine \/ result[i].line_start >= 1

\* The rules whose pattern has no line-number group.
NoLineRules == {"linter", "webpack", "mention"}

IsWhitespaceOnly(lines) == \A i \in 1..Len(lines) : lines[i].kind = "blank"

\* The match passes normalization and the validity filter.
IsEmittable(m) ==
  /\ Truthy(ResolvedPath(m.file, working_dir))
  /\ is_valid_file_path(ResolvedPath(m.file, working_dir))

\* C13: the call is at a step that leads to its return; every emittable match of
\* every rule has its path in the result, with line_start absent when the
\* rule has no line-number group; a whitespace-only log gives the empty
\* list.
C13_Total ==
  /\ pc \in {"start", "scan", "done"}
  /\ pc = "scan" => pattern_idx \in 1..(Len(FILE_PATTERNS) + 1)
  /\ pc = "done" =>
       /\ \A k \in 1..Len(FILE_PATTERNS) :
            \A m \in Range(FindIter(FILE_PATTERNS[k], log)) :
              IsEmittable(m) =>
                /\ \E i \in 1..Len(result) :
                     result[i].file_path = ResolvedPath(m.file, working_dir)
                /\ FILE_PATTERNS[k] \in NoLineRules =>
                     AffectedFile(ResolvedPath(m.file, working_dir), NoLine) \in Range(result)
       /\ IsWhitespaceOnly(log) => result = <<>>

\* C13 witness: the call has returned a reference without line from a
\* linter-quoted file and a reference with a line from a later rule.
C13_Witness ==
  /\ pc = "done"
  /\ \E m \in Range(FindIter("linter", log)) :
       /\ IsEmittable(m)
       /\ AffectedFile(ResolvedPath(m.file, working_dir), NoLine) \in Range(result)
  /\ \E m \in Range(FindIter("generic", log)) :
       /\ IsEmittable(m)
       /\ AffectedFile(ResolvedPath(m.file, working_dir), 9) \in Range(result)

\* The raw path with backslashes converted to forward slashes.
Slashed(path) == ReplaceChar(path, "\\", "/")

\* C14: a raw path that starts with "../" normalizes to nothing.
C14_ParentUnresolvable ==
  pc = "done" =>
    \A m \in AllMatches :
      StartsWith(Slashed(m.file), <<".",".","/">>) => normalize_file_path(m.file) = NoPath

\* The text after an occurrence of the runner root has three segments or more.
HasRunnerRoot(s) ==
  \E i \in 1..Len(s) :
    /\ StartsWith(DropN(s, i - 1), <<"/","h","o","m","e","/","r","u","n","n","e","r","/","w","o","r","k","/">>)
    /\ Len(Split(DropN(s, i - 1 + Len(<<"/","h","o","m","e","/","r","u","n","n","e","r","/","w","o","r","k","/">>)), "/")) >= 3

MatchesKnownConvention(s) ==
  \/ HasRunnerRoot(s)
  \/ StartsWith(s, <<"/","w","o","r","k","s","p","a","c","e","/">>)
  \/ Contains(s, <<"/","h","o","m","e","/","c","i","r","c","l","e","c","i","/","p","r","o","j","e","c","t","/">>)

\* C15: a raw path that starts with "/" and follows no known CI
\* convention normalizes to nothing, and no reference is made of it.
C15_UnknownAbsoluteRejected ==
  pc = "done" =>
    \A m \in AllMatches :
      (StartsWith(Slashed(m.file), <<"/">>) /\ ~MatchesKnownConvention(Slashed(m.file)))
      => /\ normalize_file_path(m.file) = NoPath
         /\ AddMatch(<<>>, m, working_dir) = <<>>

\* What follows the first runner root of s, by segment.
AfterRunnerRoot(s) == Split(AfterFirst(s, <<"/","h","o","m","e","/","r","u","n","n","e","r","/","w","o","r","k","/">>), "/")

\* The runner root of s is followed by two segments and a remainder.
HasRunnerRemainder(s) ==
  /\ Contains(s, <<"/","h","o","m","e","/","r","u","n","n","e","r","/","w","o","r","k","/">>)
  /\ Len(AfterRunnerRoot(s)) >= 3
  /\ AfterRunnerRoot(s)[1] # <<>>
  /\ AfterRunnerRoot(s)[2] # <<>>
  /\ Join(SubSeq(AfterRunnerRoot(s), 3, Len(AfterRunnerRoot(s))), "/") # <<>>

\* C16: a raw path with the runner root, two segments and a remainder
\* normalizes to the remainder, whatever stands before the runner root.
C16_RunnerRemainder ==
  pc = "done" =>
    \A m \in AllMatches :
      HasRunnerRemainder(Slashed(m.file)) =>
        normalize_file_path(m.file)
          = Join(SubSeq(AfterRunnerRoot(Slashed(m.file)), 3,
                        Len(AfterRunnerRoot(Slashed(m.file)))), "/")

\* The accept conditions as C17 lists them.
ClaimedAccept(path) ==
  \/ \E root \in {<<"s","r","c","/">>, <<"t","e","s","t","s","/">>, <<"t","e","s","t","/">>, <<"l","i","b","/">>, <<"a","p","p","/">>, <<".","/">>, <<".",".","/">>, <<"p","k","g","/">>} :
       StartsWith(path, root)
  \/ \E name \in {<<"D","o","c","k","e","r","f","i","l","e">>, <<"M","a","k","e","f","i","l","e">>, <<"G","e","m","f","i","l","e">>, <<"R","a","k","e","f","i","l","e">>, <<"C","M","a","k","e","L","i","s","t","s",".","t","x","t">>} :
       path = name \/ StartsWith(path, name \o <<".">>)
  \/ ~Contains(path, <<"/">>) /\ Contains(path, <<".">>)
  \/ \E ext \in {<<"p","y">>, <<"j","s">>, <<"t","s">>, <<"t","s","x">>, <<"j","s","x">>, <<"g","o">>, <<"r","s">>, <<"r","b">>, <<"j","a","v","a">>, <<"c","p","p">>, <<"c">>,
                  <<"h">>, <<"c","s">>, <<"p","h","p">>, <<"s","w","i","f","t">>, <<"k","t">>, <<"s","c","a","l","a">>, <<"p","y","x">>, <<"c","c">>, <<"h","p","p">>, <<"c","x","x">>} :
       EndsWith(path, <<".">> \o ext)

\* C17: every returned path meets an accept condition.
C17_RejectByDefault ==
  \A i \in 1..Len(result) : ClaimedAccept(result[i].file_path)

\* C17 witness: the log names a path that no reject rule stops and that
\* meets no accept condition; nothing is returned.
C17_Witness ==
  /\ pc = "done"
  /\ result = <<>>
  /\ \E m \in AllMatches :
       /\ Truthy(ResolvedPath(m.file, working_dir))
       /\ ~IsRejected(ResolvedPath(m.file, working_dir))
       /\ ~ClaimedAccept(ResolvedPath(m.file, working_dir))
       /\ EndsWith(ResolvedPath(m.file, working_dir), <<"/","R","E","A","D","M","E">>)

\* The address of the file at the commit, as C18 and C19 give it.
BlobUrl(in) ==
  <<"h","t","t","p","s",":","/","/","g","i","t","h","u","b",".","c","o","m","/">> \o in.repo.repo_owner \o <<"/">> \o in.repo.repo_name
    \o <<"/","b","l","o","b","/">> \o in.repo.commit_sha \o <<"/">> \o in.file.file_path

\* The link points into the blob tree of the repository.
IsBlobLink(link, in) == Contains(link, <<"]","(">> \o BlobUrl(in))

\* The link is a code search for the path, marked as a search.
IsSearchLink(link, in) ==
  EndsWith(link,
           <<"]","(">> \o <<"h","t","t","p","s",":","/","/","g","i","t","h","u","b",".","c","o","m","/">> \o in.repo.repo_owner \o <<"/">> \o in.repo.repo_name
             \o <<"/","s","e","a","r","c","h","?","q","=","p","a","t","h",":">> \o in.file.file_path \o <<"&","t","y","p","e","=","c","o","d","e">>
             \o <<")"," ","_","(","o","p","e","n"," ","a","s"," ","s","e","a","r","c","h",")","_">>)

\* C18: the link is a blob link exactly when the path contains "/"; for a
\* path without "/" it is a code-search link marked "(open as search)".
C18_DirectIffDirectory ==
  link_out # NoLink =>
    /\ IsBlobLink(link_out, link_in) <=> Contains(link_in.file.file_path, <<"/">>)
    /\ ~Contains(link_in.file.file_path, <<"/">>) =>
         IsSearchLink(link_out, link_in) /\ ~IsBlobLink(link_out, link_in)

\* C18 witness: a search link was returned for a bare filename with a line
\* number, in a repository named "blob".
C18_Witness ==
  /\ link_out # NoLink
  /\ link_in.file.file_path = <<"a",".","p","y">>
  /\ link_in.file.line_start = 9
  /\ link_in.repo.repo_name = <<"b","l","o","b">>
  /\ IsSearchLink(link_out, link_in)

\* The anchor C19 gives for a reference.
ClaimedAnchor(file) ==
  IF file.line_start = NoLine THEN <<>>
  ELSE <<"#","L">> \o IntToStr(file.line_start)
         \o (IF file.line_end # NoLine /\ file.line_end # file.line_start
               THEN <<"-","L">> \o IntToStr(file.line_end) ELSE <<>>)

\* C19: for a path with "/", the link target is the blob address followed
\* by #L<line_start> when line_start is present, by -L<line_end> too when
\* line_end is present and differs, and by nothing when line_start is
\* absent.
C19_LineAnchor ==
  (link_out # NoLink /\ Contains(link_in.file.file_path, <<"/">>)) =>
    EndsWith(link_out, <<"]","(">> \o BlobUrl(link_in) \o ClaimedAnchor(link_in.file) \o <<")">>)

\* The jobs of the run, file parsing of job i not raising.
WithoutParseFault(jobs, i) ==
  [k \in 1..Len(jobs) |->
     IF k = i THEN [jobs[k] EXCEPT !.faults = @ \ {"parse"}] ELSE jobs[k]]

\* The summaries a run writes, from job k on: the loop ends at a job where
\* preprocessing or token counting raises; a job whose analysis,
\* formatting or write raises is skipped.
RECURSIVE ExpectedSummaries(_, _, _)
ExpectedSummaries(jobs, k, repo) ==
  IF k > Len(jobs) \/ jobs[k].faults \cap {"preprocess", "tokens"} # {} THEN <<>>
  ELSE (IF jobs[k].faults \cap {"llm", "format", "write"} # {} THEN <<>>
        ELSE <<[job |-> k,
                affected_files_section |->
                  AffectedFilesSection(IF "parse" \in jobs[k].faults THEN <<>>
                                       ELSE jobs[k].files, repo)]>>)
       \o ExpectedSummaries(jobs, k + 1, repo)

\* The jobs a run sends to the LLM, from job k on.
RECURSIVE ExpectedCalls(_, _)
ExpectedCalls(jobs, k) ==
  IF k > Len(jobs) \/ jobs[k].faults \cap {"preprocess", "tokens"} # {} THEN <<>>
  ELSE <<k>> \o ExpectedCalls(jobs, k + 1)

\* The summaries of the jobs other than i, in order.
RECURSIVE OtherThan(_, _)
OtherThan(s, i) ==
  IF Len(s) = 0 THEN <<>>
  ELSE (IF Head(s).job = i THEN <<>> ELSE <<Head(s)>>) \o OtherThan(Tail(s), i)

C26_PrefixKeepsReference ==
  (pc = "done" /\ Truthy(working_dir)) =>
    \A m \in AllMatches :
      LET P == normalize_file_path(m.file)
      IN  (Truthy(P) /\ looks_like_incomplete_path(P) /\ is_valid_file_path(P)) =>
            \E i \in 1..Len(result) :
              /\ result[i].file_path = working_dir \o <<"/">> \o P
              /\ result[i].line_start = LineNum(m)

\* C28: a path returned by _normalize_file_path is returned unchanged when
\* the function is applied to it again.
C28_NormalizeIdempotent ==
  pc = "done" =>
    \A m \in AllMatches :
      normalize_file_path(m.file) # NoPath =>
        normalize_file_path(normalize_file_path(m.file)) = normalize_file_path(m.file)

\* The lines of the log without the announcements that stand after the
\* first one.
RECURSIVE UpToFirstAnnouncement(_, _)
UpToFirstAnnouncement(lines, seen) ==
  IF Len(lines) = 0 THEN <<>>
  ELSE LET isAnnouncement == Head(lines).kind \in {"compiling", "compiling_build"}
       IN  (IF isAnnouncement /\ seen THEN <<>> ELSE <<Head(lines)>>)
             \o UpToFirstAnnouncement(Tail(lines), seen \/ isAnnouncement)

\* C29: the inferred directory is the one inferred from the log without
\* the announcements after the first: no later announcement is examined.
C29_FirstAnnouncementOnly ==
  pc # "start" =>
    working_dir = extract_working_directory(UpToFirstAnnouncement(log, FALSE))

\* The LLM call, the formatting or the summary write raises for the job.
AnalysisRaises(job) == job.faults \cap {"llm", "format", "write"} # {}

\* Log preprocessing or token counting raises for the job.
LoopRaises(job) == job.faults \cap {"preprocess", "tokens"} # {}

\* The number of summaries written for job i.
SummariesOf(i) == Cardinality({k \in 1..Len(summaries) : summaries[k].job = i})

\* The jobs are sent to the LLM in the order of the list, each at most once.
CallsInOrder == \A a, b \in 1..Len(llm_calls) : a < b => llm_calls[a] < llm_calls[b]

\* C24 as stated: when the LLM call, the formatting or the write raises
\* for job i, no summary is written for job i, every later job is sent to
\* the LLM in order, no job has two summaries and the run returns 0.
C24_AnalysisFailureIsolated ==
  (run_pc = "exit" /\ run_in.config_ok /\ run_in.fetch_ok) =>
    \A i \in 1..Len(run_in.failed_jobs) :
      (i \in Range(llm_calls) /\ AnalysisRaises(run_in.failed_jobs[i])) =>
        /\ SummariesOf(i) = 0
        /\ \A k \in (i + 1)..Len(run_in.failed_jobs) : k \in Range(llm_calls)
        /\ CallsInOrder
        /\ \A k \in 1..Len(run_in.failed_jobs) : SummariesOf(k) <= 1
        /\ exit_code = 0

\* C24 as amended: the later jobs are sent to the LLM in order up to the
\* first one whose preprocessing or token counting raises, and the run
\* returns 0 unless there is such a job (then 1).
C24_AnalysisFailureIsolatedUpToAbort ==
  (run_pc = "exit" /\ run_in.config_ok /\ run_in.fetch_ok) =>
    \A i \in 1..Len(run_in.failed_jobs) :
      (i \in Range(llm_calls) /\ AnalysisRaises(run_in.failed_jobs[i])) =>
        /\ SummariesOf(i) = 0
        /\ \A k \in (i + 1)..Len(run_in.failed_jobs) :
             (\A j \in (i + 1)..k : ~LoopRaises(run_in.failed_jobs[j]))
               => k \in Range(llm_calls)
        /\ CallsInOrder
        /\ \A k \in 1..Len(run_in.failed_jobs) : SummariesOf(k) <= 1
        /\ exit_code = (IF \E k \in (i + 1)..Len(run_in.failed_jobs) :
                              LoopRaises(run_in.failed_jobs[k])
                          THEN 1 ELSE 0)

\* C24 witness: the LLM call raised for the first of two jobs; the second
\* was sent to the LLM and has the only summary, and the run returned 0.
C24_Witness ==
  /\ run_pc = "exit"
  /\ exit_code = 0
  /\ Len(run_in.failed_jobs) = 2
  /\ run_in.failed_jobs[1].faults = {"llm"}
  /\ run_in.failed_jobs[2].faults = {}
  /\ llm_calls = <<1, 2>>
  /\ Len(summaries) = 1
  /\ summaries[1].job = 2

\* C27: when preprocessing or token counting raises for job i, the run
\* returns 1, the jobs sent to the LLM are those before i, no summary is
\* written for i or a later job, and every job before i whose analysis did
\* not raise has its summary.
C27_LoopFailureAbortsRun ==
  (run_pc = "exit" /\ run_in.config_ok /\ run_in.fetch_ok) =>
    \A i \in 1..Len(run_in.failed_jobs) :
      (/\ LoopRaises(run_in.failed_jobs[i])
       /\ \A k \in 1..(i - 1) : ~LoopRaises(run_in.failed_jobs[k]))
      => /\ exit_code = 1
         /\ Range(llm_calls) = 1..(i - 1)
         /\ \A k \in i..Len(run_in.failed_jobs) : SummariesOf(k) = 0
         /\ \A k \in 1..(i - 1) :
              SummariesOf(k) = (IF AnalysisRaises(run_in.failed_jobs[k]) THEN 0 ELSE 1)

\* C27 witness: token counting raised for the first of two jobs and the
\* second, healthy job was neither analysed nor summarised.
C27_Witness ==
  /\ run_pc = "exit"
  /\ exit_code = 1
  /\ Len(run_in.failed_jobs) = 2
  /\ run_in.failed_jobs[1].faults = {"tokens"}
  /\ run_in.failed_jobs[2].faults = {}
  /\ llm_calls = <<>>
  /\ summaries = <<>>

\* The jobs among s whose conclusion is "failure" or "cancelled", in order.
RECURSIVE FailedOf(_)
FailedOf(s) ==
  IF Len(s) = 0 THEN <<>>
  ELSE (IF Head(s).conclusion = "failure" \/ Head(s).conclusion = "cancelled"
          THEN <<Head(s)>> ELSE <<>>)
       \o FailedOf(Tail(s))

\* The requests of one kind among s, in order.
RECURSIVE RequestsOf(_, _)
RequestsOf(s, kind) ==
  IF Len(s) = 0 THEN <<>>
  ELSE (IF Head(s).kind = kind THEN <<Head(s)>> ELSE <<>>) \o RequestsOf(Tail(s), kind)

\* The jobs of the run as the API lists them: all of them when total_count
\* is the number of jobs, the jobs on the pages fetched otherwise.
ListedJobs == IF api.total_count = Len(api.jobs) THEN api.jobs ELSE all_jobs

\* C21: the call returns one JobLog for each listed job whose conclusion is
\* "failure" or "cancelled", in the order of the list, and the log
\* requests are those of these jobs, in the same order.
C21_OneJobLogPerFailedJob ==
  fetch_pc = "returned" =>
    LET failed == FailedOf(ListedJobs)
    IN  /\ Len(failed_jobs) = Len(failed)
        /\ \A i \in 1..Len(failed) :
             /\ failed_jobs[i].job_name = failed[i].id
             /\ failed_jobs[i].raw_logs = failed[i].id
             /\ failed_jobs[i].conclusion = failed[i].conclusion
        /\ RequestsOf(requests, "logs")
             = [i \in 1..Len(failed) |-> [kind |-> "logs", id |-> failed[i].id]]

\* C21 witness: of a successful, a failed and a cancelled job on two pages,
\* the second and the third have a JobLog and a log request.
C21_Witness ==
  /\ fetch_pc = "returned"
  /\ api.page_size = 2
  /\ api.total_count = 3
  /\ [i \in 1..Len(api.jobs) |-> api.jobs[i].conclusion] = <<"success", "failure", "cancelled">>
  /\ [i \in 1..Len(failed_jobs) |-> failed_jobs[i].job_name] = <<2, 3>>
  /\ Len(RequestsOf(requests, "logs")) = 2

\* The length of the run of equal lines at the head of ls.
RECURSIVE RunLength(_)
RunLength(ls) ==
  IF Len(ls) = 0 THEN 0
  ELSE IF Len(ls) >= 2 /\ ls[2] = ls[1] THEN 1 + RunLength(Tail(ls))
  ELSE 1

\* Every maximal run of k >= 3 equal lines replaced by its marker line,
\* every shorter run left as it is.
RECURSIVE ClaimedCollapse(_)
ClaimedCollapse(ls) ==
  IF Len(ls) = 0 THEN <<>>
  ELSE LET k == RunLength(ls)
       IN  (IF k >= 3
              THEN <<ls[1] \o <<" ","(","r","e","p","e","a","t","e","d"," ">> \o IntToStr(k) \o <<" ","t","i","m","e","s",")">>>>
              ELSE SubSeq(ls, 1, k))
           \o ClaimedCollapse(DropN(ls, k))

\* C22: _collapse_repeated_lines returns the runs of its input in order,
\* each run of three or more as one marker line, each shorter run
\* unchanged.
C22_CollapseRuns ==
  pre_pc \in {"empty", "join", "done"} => pre_collapsed = ClaimedCollapse(pre_lines)

\* C22 witness: the last run of the input is a run of three and is
\* collapsed; the line before it is kept.
C22_Witness ==
  /\ pre_pc = "done"
  /\ pre_lines = <<<<" ">>, <<"e">>, <<"e">>, <<"e">>>>
  /\ pre_collapsed = <<<<" ">>, <<"e"," ","(","r","e","p","e","a","t","e","d"," ","3"," ","t","i","m","e","s",")">>>>

\* C23: None gives "N/A"; s < 60 gives "<s>s"; 60 <= s < 3600 gives
\* "<M>m <S>s" and s >= 3600 gives "<H>h <M>m <S>s", with S < 60, M < 60
\* beside hours, and H*3600 + M*60 + S = s.
C23_DurationFormat ==
  duration_str # NoStr =>
    IF seconds = NoSeconds THEN duration_str = <<"N","/","A">>
    ELSE IF seconds < 60 THEN duration_str = IntToStr(seconds) \o <<"s">>
    ELSE IF seconds < 3600
      THEN \E M \in 1..(seconds \div 60), S \in 0..59 :
             /\ M * 60 + S = seconds
             /\ duration_str = IntToStr(M) \o <<"m"," ">> \o IntToStr(S) \o <<"s">>
      ELSE \E H \in 1..(seconds \div 3600), M \in 0..59, S \in 0..59 :
             /\ H * 3600 + M * 60 + S = seconds
             /\ duration_str = IntToStr(H) \o <<"h"," ">> \o IntToStr(M) \o <<"m"," ">>
                                 \o IntToStr(S) \o <<"s">>

\* C23 witness: 3665 seconds are shown with hours, minutes and seconds.
C23_Witness ==
  /\ seconds = 3665
  /\ duration_str = <<"1","h"," ","1","m"," ","5","s">>

\* The number of jobs on the pages 1..p of the API.
Accumulated(p) == Min(p * api.page_size, Len(api.jobs))

\* total_count as the claim counts it.
ClaimedTotal == IF api.total_count = NoCount THEN 0 ELSE api.total_count

\* The page requests are those for the pages 1, 2, 3, ... in this order.
PagesInOrder ==
  \A i \in 1..Len(RequestsOf(requests, "jobs")) : RequestsOf(requests, "jobs")[i].id = i

\* Once the loop has ended, the last page requested is the first one that
\* has no jobs or reaches total_count, and the jobs are those of the pages
\* requested.
StopsAtFirstFullOrEmptyPage ==
  fetch_pc \in {"jobs", "returned"} =>
    LET k == Len(RequestsOf(requests, "jobs"))
    IN  /\ k >= 1
        /\ ServedJobs(api, k) = <<>> \/ Accumulated(k) >= ClaimedTotal
        /\ \A p \in 1..(k - 1) : ServedJobs(api, p) # <<>> /\ Accumulated(p) < ClaimedTotal
        /\ all_jobs = SubSeq(api.jobs, 1, Accumulated(k))

\* The API answers every page request and reports the number of jobs.
WellBehavedApi == api.bad_page = 0 /\ api.total_count = Len(api.jobs)

\* C25: the pages are requested in order, the loop stops at the first page
\* that is empty or reaches total_count (0 when absent), and with an API
\* that reports the number of jobs the loop ends with all jobs, in page
\* order, each once.
C25_PaginationTerminates ==
  /\ [](PagesInOrder /\ StopsAtFirstFullOrEmptyPage)
  /\ (fetch_pc = "pages" /\ WellBehavedApi)
       ~> (fetch_pc \in {"jobs", "returned", "raised"} /\ all_jobs = api.jobs)

\* C25 witness: three jobs served one per page by an API that reports the
\* number of jobs; the loop ended at page 3 with the three jobs.
C25_Witness ==
  /\ fetch_pc = "jobs"
  /\ WellBehavedApi
  /\ api.page_size = 1
  /\ Len(api.jobs) = 3
  /\ page = 3
  /\ all_jobs = api.jobs
  /\ requests = <<[kind |-> "jobs", id |-> 1], [kind |-> "jobs", id |-> 2],
                  [kind |-> "jobs", id |-> 3]>>

\* C30: the output of preprocess_logs has no three consecutive blank lines
\* and no repeat marker of an empty line.
C30_EmptyRunsReduced ==
  pre_pc = "done" =>
    /\ \A i \in 1..(Len(pre_filtered) - 2) :
         ~(IsBlank(pre_filtered[i]) /\ IsBlank(pre_filtered[i + 1])
             /\ IsBlank(pre_filtered[i + 2]))
    /\ \A i \in 1..Len(pre_filtered) : ~StartsWith(pre_filtered[i], <<" ","(","r","e","p","e","a","t","e","d"," ">>)
    /\ \A i \in 1..Len(Split(preprocessed, "\n")) :
         ~StartsWith(Split(preprocessed, "\n")[i], <<" ","(","r","e","p","e","a","t","e","d"," ">>)

====
